---- MODULE Spec2Model ----
(***************************************************************************)
(* Orthogonal edge router of the diagram editor                            *)
(* (src/src/components/Toolbar.jsx, lines 464-1328).                       *)
(*                                                                         *)
(* World coordinates are JavaScript numbers.  They are represented here as *)
(* integers counted in 1/Unit of a pixel, so that the fractions the router *)
(* produces (port offsets i/(n+1), pinned offsets in tenths, midpoints)    *)
(* are exact.  Grid indices are plain integers as in the source.           *)
(***************************************************************************)
EXTENDS Integers, Sequences, FiniteSets, TLC

\* ---------------------------------------------------------------------
\* Program constants (Toolbar.jsx 467-477)
\* ---------------------------------------------------------------------
CELL == 20
NODE_PAD == 18
TURN_COST == 4
CROSS_COST == 16
PORT_EXTEND == 28
GRID_MARGIN == 160
Unit == 120

DX == <<1, 0, -1, 0>>
DY == <<0, 1, 0, -1>>

\* directions are 0..3 in the source; DX[d] there is DX[d + 1] here
DirX(d) == DX[d + 1]
DirY(d) == DY[d + 1]

SIDE_TO_DIR(side) ==
  CASE side = "right" -> 0
    [] side = "bottom" -> 1
    [] side = "left" -> 2
    [] side = "top" -> 3


\* ---------------------------------------------------------------------
\* Number helpers
\* ---------------------------------------------------------------------
Abs(v) == IF v < 0 THEN -v ELSE v
Min(a, b) == IF a < b THEN a ELSE b
Max(a, b) == IF a > b THEN a ELSE b

\* Math.floor(a / b), Math.ceil(a / b), Math.round(a / b) for b > 0
FloorDiv(a, b) == a \div b
CeilDiv(a, b) == -((-a) \div b)
RoundDiv(a, b) == (2 * a + b) \div (2 * b)

\* pixels to units
Px(v) == v * Unit

\* an offset is the fraction n / d
Frac(n, d) == [n |-> n, d |-> d]
FracLess(a, b) == a.n * b.d < b.n * a.d
FracAbsDiff(a, b) == Frac(Abs(a.n * b.d - b.n * a.d), a.d * b.d)
\* Infinity as a distance: FracLess(a, FracInfinity) holds for every a
FracInfinity == Frac(1, 0)

\* v * offset, exact for the node sizes and offsets of the model
Scale(v, o) == (v * o.n) \div o.d

Pt(x, y) == [x |-> x, y |-> y]

Last(s) == s[Len(s)]
\* the array s after s[k] = v (k counted from 1)
SetAt(s, k, v) == [i \in 1..Len(s) |-> IF i = k THEN v ELSE s[i]]

\* ---------------------------------------------------------------------
\* Inputs: nodes and edges as the caller passes them (pixels)
\* ---------------------------------------------------------------------
Node(id, x, y, w, h) == [id |-> id, x |-> Px(x), y |-> Px(y), width |-> Px(w), height |-> Px(h)]

\* edge.fromPort / edge.toPort absent
NoPort == [side |-> "none", offset |-> Frac(1, 2)]
PinnedPort(side, o) == [side |-> side, offset |-> o]
Edge(id, from, to, fp, tp) == [id |-> id, from |-> from, to |-> to, fromPort |-> fp, toPort |-> tp]

\* nodes.find(n => n.id === id) !== undefined
HasNode(nodes, id) == \E i \in 1..Len(nodes) : nodes[i].id = id
\* what nodes.find returns when nothing matches
Undefined == [id |-> "undefined", x |-> 0, y |-> 0, width |-> 0, height |-> 0]
\* nodes.find(n => n.id === id): the first match
FindNode(nodes, id) ==
  IF HasNode(nodes, id)
    THEN nodes[CHOOSE i \in 1..Len(nodes) : nodes[i].id = id /\ \A j \in 1..(i - 1) : nodes[j].id # id]
    ELSE Undefined

\* ---------------------------------------------------------------------
\* Helpers (Toolbar.jsx 514-546)
\* ---------------------------------------------------------------------
RECURSIVE SeqMin(_, _), SeqMax(_, _)
SeqMin(s, i) == IF i = Len(s) THEN s[i] ELSE Min(s[i], SeqMin(s, i + 1))
SeqMax(s, i) == IF i = Len(s) THEN s[i] ELSE Max(s[i], SeqMax(s, i + 1))

computeBBox(nodes) ==
  [minX |-> SeqMin([i \in 1..Len(nodes) |-> nodes[i].x], 1) - Px(GRID_MARGIN),
   minY |-> SeqMin([i \in 1..Len(nodes) |-> nodes[i].y], 1) - Px(GRID_MARGIN),
   maxX |-> SeqMax([i \in 1..Len(nodes) |-> nodes[i].x + nodes[i].width], 1) + Px(GRID_MARGIN),
   maxY |-> SeqMax([i \in 1..Len(nodes) |-> nodes[i].y + nodes[i].height], 1) + Px(GRID_MARGIN)]

\* twice the centre, to stay in integers: comparisons are unchanged
CentreX2(n) == 2 * n.x + n.width
CentreY2(n) == 2 * n.y + n.height

\* a tie between the two axes decided for the vertical one
autoSideTieVertical(fromNode, toNode) ==
  LET dx == CentreX2(toNode) - CentreX2(fromNode)
      dy == CentreY2(toNode) - CentreY2(fromNode)
  IN IF Abs(dx) > Abs(dy)
       THEN (IF dx >= 0 THEN "right" ELSE "left")
       ELSE (IF dy >= 0 THEN "bottom" ELSE "top")

autoSide(fromNode, toNode) ==
  LET dx == CentreX2(toNode) - CentreX2(fromNode)
      dy == CentreY2(toNode) - CentreY2(fromNode)
  IN IF Abs(dx) >= Abs(dy)
       THEN (IF dx >= 0 THEN "right" ELSE "left")
       ELSE (IF dy >= 0 THEN "bottom" ELSE "top")

portToWorld(node, side, offset) ==
  CASE side = "top" -> Pt(node.x + Scale(node.width, offset), node.y)
    [] side = "right" -> Pt(node.x + node.width, node.y + Scale(node.height, offset))
    [] side = "bottom" -> Pt(node.x + Scale(node.width, offset), node.y + node.height)
    [] side = "left" -> Pt(node.x, node.y + Scale(node.height, offset))

\* ---------------------------------------------------------------------
\* Port assignment (Toolbar.jsx 548-646)
\* ---------------------------------------------------------------------
\* a loop that skips no edge
SkipsEdgeNever(nodes, edge) == FALSE

\* 555: if (!fromNode || !toNode) continue
SkipsEdge(nodes, edge) == ~HasNode(nodes, edge.from) \/ ~HasNode(nodes, edge.to)

\* the endpoints pushed by the first loop, in push order (552-575)
RECURSIVE Endpoints(_, _, _)
Endpoints(nodes, edges, i) ==
  IF i > Len(edges) THEN <<>>
  ELSE LET edge == edges[i] IN
    IF SkipsEdge(nodes, edge)
      THEN Endpoints(nodes, edges, i + 1)
      ELSE LET fromNode == FindNode(nodes, edge.from)
               toNode == FindNode(nodes, edge.to)
               fromSide == IF edge.fromPort # NoPort THEN edge.fromPort.side ELSE autoSide(fromNode, toNode)
               toSide == IF edge.toPort # NoPort THEN edge.toPort.side ELSE autoSide(toNode, fromNode)
           IN << [edgeId |-> edge.id, isFrom |-> TRUE, nodeId |-> edge.from, otherNode |-> toNode,
                  pinned |-> edge.fromPort # NoPort, pinnedOffset |-> edge.fromPort.offset, side |-> fromSide],
                 [edgeId |-> edge.id, isFrom |-> FALSE, nodeId |-> edge.to, otherNode |-> fromNode,
                  pinned |-> edge.toPort # NoPort, pinnedOffset |-> edge.toPort.offset, side |-> toSide] >>
              \o Endpoints(nodes, edges, i + 1)

\* groups[nodeId + ":" + side]
Group(eps, nodeId, side) ==
  LET InGroup(ep) == ep.nodeId = nodeId /\ ep.side = side
  IN SelectSeq(eps, InGroup)

\* the key auto.sort compares (589-595), doubled
OtherCentre2CrossAxis(ep, side) ==
  IF side = "top" \/ side = "bottom" THEN CentreY2(ep.otherNode) ELSE CentreX2(ep.otherNode)

OtherCentre2(ep, side) ==
  IF side = "top" \/ side = "bottom" THEN CentreX2(ep.otherNode) ELSE CentreY2(ep.otherNode)

\* Array.prototype.sort is stable: an element goes behind every element
\* whose key is not larger
RECURSIVE SortAuto(_, _, _)
SortAuto(auto, side, i) ==
  IF i = 0 THEN <<>>
  ELSE LET sorted == SortAuto(auto, side, i - 1)
           e == auto[i]
           k == Cardinality({j \in 1..Len(sorted) : OtherCentre2(sorted[j], side) <= OtherCentre2(e, side)})
       IN SubSeq(sorted, 1, k) \o <<e>> \o SubSeq(sorted, k + 1, Len(sorted))

\* slots that start at the corner of the side
PositionFromCorner(i, total) == Frac(i, total + 1)

\* positions[i] for i in 0..total-1 (598-601)
Position(i, total) == Frac(i + 1, total + 1)

\* the inner loop 607-611: index and distance of the best slot so far
RECURSIVE BestSlot(_, _, _, _, _, _)
BestSlot(ep, usedIdxs, total, i, bestIdx, bestDist) ==
  IF i >= total THEN bestIdx
  ELSE IF i \in usedIdxs THEN BestSlot(ep, usedIdxs, total, i + 1, bestIdx, bestDist)
  ELSE LET d == FracAbsDiff(Position(i, total), ep.pinnedOffset) IN
       IF FracLess(d, bestDist)
         THEN BestSlot(ep, usedIdxs, total, i + 1, i, d)
         ELSE BestSlot(ep, usedIdxs, total, i + 1, bestIdx, bestDist)

\* usedIdxs after the loop over the pinned endpoints (604-622)
RECURSIVE UsedIdxs(_, _, _)
UsedIdxs(pinned, total, k) ==
  IF k = 0 THEN {}
  ELSE LET before == UsedIdxs(pinned, total, k - 1)
       IN before \cup {BestSlot(pinned[k], before, total, 0, 0, FracInfinity)}

\* availIdxs (625-628), ascending
RECURSIVE AvailIdxs(_, _, _)
AvailIdxs(usedIdxs, total, i) ==
  IF i >= total THEN <<>>
  ELSE (IF i \in usedIdxs THEN <<>> ELSE <<i>>) \o AvailIdxs(usedIdxs, total, i + 1)

PortEntry(node, side, offset) ==
  LET pos == portToWorld(node, side, offset)
  IN [side |-> side, offset |-> offset, dir |-> SIDE_TO_DIR(side), x |-> pos.x, y |-> pos.y]

\* the offset of the slot the endpoint claims
PinnedOffsetOfSlot(ep, total, slot) == Position(slot, total)

\* the offset of a pinned endpoint (614)
PinnedOffsetOf(ep, total, slot) == ep.pinnedOffset

\* the offset of the i-th (0-based) sorted unpinned endpoint (632-634)
AutoOffset(i, availIdxs, total, nAuto) ==
  IF i < Len(availIdxs) THEN Position(availIdxs[i + 1], total) ELSE Frac(i + 1, nAuto + 1)

\* the entries one group writes into assignments (579-643):
\* a sequence of [edgeId, isFrom, entry]
GroupEntries(nodes, eps, nodeId, side) ==
  LET group == Group(eps, nodeId, side)
      node == FindNode(nodes, nodeId)
      total == Len(group)
      IsPinned(ep) == ep.pinned
      IsAuto(ep) == ~ep.pinned
      pinned == SelectSeq(group, IsPinned)
      unsorted == SelectSeq(group, IsAuto)
      auto == SortAuto(unsorted, side, Len(unsorted))
      usedIdxs == UsedIdxs(pinned, total, Len(pinned))
      availIdxs == AvailIdxs(usedIdxs, total, 0)
  IN [k \in 1..Len(pinned) |->
        [edgeId |-> pinned[k].edgeId, isFrom |-> pinned[k].isFrom,
         entry |-> PortEntry(node, side,
                     PinnedOffsetOf(pinned[k], total,
                       BestSlot(pinned[k], UsedIdxs(pinned, total, k - 1), total, 0, 0, FracInfinity)))]]
     \o
     [k \in 1..Len(auto) |->
        [edgeId |-> auto[k].edgeId, isFrom |-> auto[k].isFrom,
         entry |-> PortEntry(node, side, AutoOffset(k - 1, availIdxs, total, Len(auto)))]]

\* assignments: edge id -> [from |-> port, to |-> port].  A group whose
\* node is missing writes nothing (582).  An id is in the domain exactly
\* when a, a.from and a.to are all set, the test of 1190 and 1203.
computePortAssignments(nodes, edges) ==
  LET eps == Endpoints(nodes, edges, 1)
      Written(id, isFrom) ==
        \E i \in 1..Len(eps) :
          eps[i].edgeId = id /\ eps[i].isFrom = isFrom /\ HasNode(nodes, eps[i].nodeId)
      ids == {id \in {eps[i].edgeId : i \in 1..Len(eps)} : Written(id, TRUE) /\ Written(id, FALSE)}
      EntryOf(id, isFrom) ==
        LET ep == eps[CHOOSE i \in 1..Len(eps) : eps[i].edgeId = id /\ eps[i].isFrom = isFrom]
            entries == GroupEntries(nodes, eps, ep.nodeId, ep.side)
        IN entries[CHOOSE k \in 1..Len(entries) :
                     entries[k].edgeId = id /\ entries[k].isFrom = isFrom].entry
  IN [id \in ids |-> [from |-> EntryOf(id, TRUE), to |-> EntryOf(id, FALSE)]]

\* ---------------------------------------------------------------------
\* MinHeap (Toolbar.jsx 481-510); this.d[i] is d[i + 1]
\* ---------------------------------------------------------------------
Swap(d, i, j) == SetAt(SetAt(d, i + 1, d[j + 1]), j + 1, d[i + 1])

RECURSIVE HeapUp(_, _)
HeapUp(d, i) ==
  IF i > 0
    THEN LET p == (i - 1) \div 2 IN
         IF d[p + 1].f <= d[i + 1].f THEN d ELSE HeapUp(Swap(d, p, i), p)
    ELSE d

\* _down looking at the left child only
RECURSIVE HeapDownLeftOnly(_, _)
HeapDownLeftOnly(d, i) ==
  LET n == Len(d)
      l == 2 * i + 1
      s1 == IF l < n /\ d[l + 1].f < d[i + 1].f THEN l ELSE i
  IN IF s1 = i THEN d ELSE HeapDownLeftOnly(Swap(d, s1, i), s1)

RECURSIVE HeapDown(_, _)
HeapDown(d, i) ==
  LET n == Len(d)
      l == 2 * i + 1
      r == 2 * i + 2
      s1 == IF l < n /\ d[l + 1].f < d[i + 1].f THEN l ELSE i
      s2 == IF r < n /\ d[r + 1].f < d[s1 + 1].f THEN r ELSE s1
  IN IF s2 = i THEN d ELSE HeapDown(Swap(d, s2, i), s2)

HeapPush(d, v) == HeapUp(Append(d, v), Len(d))

\* the element pop returns, and the heap it leaves
HeapTop(d) == d[1]
HeapPop(d) ==
  LET last == d[Len(d)]
      rest == SubSeq(d, 1, Len(d) - 1)
  IN IF Len(rest) > 0 THEN HeapDown(SetAt(rest, 1, last), 0) ELSE rest

\* ---------------------------------------------------------------------
\* Grid (Toolbar.jsx 650-670)
\* ---------------------------------------------------------------------
GridW(bbox) == CeilDiv(bbox.maxX - bbox.minX, Px(CELL)) + 1
GridH(bbox) == CeilDiv(bbox.maxY - bbox.minY, Px(CELL)) + 1

\* the cells one obstacle marks (658-666)
CoveredBy(n, gx, gy, ox, oy) ==
  LET x0 == FloorDiv(n.x - Px(NODE_PAD) - ox, Px(CELL))
      y0 == FloorDiv(n.y - Px(NODE_PAD) - oy, Px(CELL))
      x1 == CeilDiv(n.x + n.width + Px(NODE_PAD) - ox, Px(CELL))
      y1 == CeilDiv(n.y + n.height + Px(NODE_PAD) - oy, Px(CELL))
  IN x0 <= gx /\ gx <= x1 /\ y0 <= gy /\ gy <= y1

\* grid[gy * gw + gx], a Uint8Array of gw * gh cells
buildGrid(obstacles, bbox) ==
  LET gw == GridW(bbox)
      gh == GridH(bbox)
  IN [i \in 0..(gw * gh - 1) |->
        IF \E k \in 1..Len(obstacles) :
             CoveredBy(obstacles[k], i % gw, i \div gw, bbox.minX, bbox.minY)
          THEN 1 ELSE 0]

\* new Uint8Array(gw * gh)
ZeroGrid(gw, gh) == [i \in 0..(gw * gh - 1) |-> 0]

\* ---------------------------------------------------------------------
\* A* (Toolbar.jsx 674-726)
\* ---------------------------------------------------------------------
stateKey(x, y, d, gh) == (x * gh + y) * 4 + d
\* the distance counted eight times over
manhattanInflated(x1, y1, x2, y2) == 8 * (Abs(x2 - x1) + Abs(y2 - y1))

manhattan(x1, y1, x2, y2) == Abs(x2 - x1) + Abs(y2 - y1)

\* 682-684: the search state before the loop
AstarInit(sx, sy, sDir, ex, ey, gh) ==
  [heap |-> HeapPush(<<>>, [gx |-> sx, gy |-> sy, dir |-> sDir, g |-> 0, f |-> manhattan(sx, sy, ex, ey)]),
   gScore |-> (stateKey(sx, sy, sDir, gh) :> 0),
   cameFrom |-> <<>>]

\* the cost of entering a cell (712-714)
StepCost(d, curDir, used) ==
  1 + (IF d # curDir THEN TURN_COST ELSE 0) + (IF used # 0 THEN CROSS_COST ELSE 0)

\* the same without the test of 710 for an occupied cell
RelaxThroughObstacles(st, cur, ck, d, grid, usage, gw, gh, ex, ey) ==
  LET nx == cur.gx + DirX(d)
      ny == cur.gy + DirY(d)
  IN IF nx < 0 \/ nx >= gw \/ ny < 0 \/ ny >= gh THEN st
     ELSE LET ng == cur.g + StepCost(d, cur.dir, usage[ny * gw + nx])
              nk == stateKey(nx, ny, d, gh)
          IN IF nk \notin DOMAIN st.gScore \/ ng < st.gScore[nk]
               THEN [heap |-> HeapPush(st.heap, [gx |-> nx, gy |-> ny, dir |-> d, g |-> ng,
                                                 f |-> ng + manhattan(nx, ny, ex, ey)]),
                     gScore |-> (nk :> ng) @@ st.gScore,
                     cameFrom |-> (nk :> ck) @@ st.cameFrom]
               ELSE st

\* one turn of the for loop 706-722
Relax(st, cur, ck, d, grid, usage, gw, gh, ex, ey) ==
  LET nx == cur.gx + DirX(d)
      ny == cur.gy + DirY(d)
  IN IF nx < 0 \/ nx >= gw \/ ny < 0 \/ ny >= gh THEN st
     ELSE IF grid[ny * gw + nx] # 0 THEN st
     ELSE LET ng == cur.g + StepCost(d, cur.dir, usage[ny * gw + nx])
              nk == stateKey(nx, ny, d, gh)
          IN IF nk \notin DOMAIN st.gScore \/ ng < st.gScore[nk]
               THEN [heap |-> HeapPush(st.heap, [gx |-> nx, gy |-> ny, dir |-> d, g |-> ng,
                                                 f |-> ng + manhattan(nx, ny, ex, ey)]),
                     gScore |-> (nk :> ng) @@ st.gScore,
                     cameFrom |-> (nk :> ck) @@ st.cameFrom]
               ELSE st

\* every popped entry taken for superseded
StaleEveryEntry(st, cur, gh) == TRUE

\* 689: a popped entry that a cheaper one has superseded
Stale(st, cur, gh) == cur.g > st.gScore[stateKey(cur.gx, cur.gy, cur.dir, gh)]

\* one turn of the while loop 686-723 that does not return
AstarExpand(st, grid, usage, gw, gh, ex, ey) ==
  LET cur == HeapTop(st.heap)
      ck == stateKey(cur.gx, cur.gy, cur.dir, gh)
      popped == [heap |-> HeapPop(st.heap), gScore |-> st.gScore, cameFrom |-> st.cameFrom]
  IN IF Stale(st, cur, gh) THEN popped
     ELSE Relax(Relax(Relax(Relax(popped, cur, ck, 0, grid, usage, gw, gh, ex, ey),
                            cur, ck, 1, grid, usage, gw, gh, ex, ey),
                      cur, ck, 2, grid, usage, gw, gh, ex, ey),
                cur, ck, 3, grid, usage, gw, gh, ex, ey)

\* 691: the popped entry is the goal cell
AtGoal(st, gh, ex, ey) ==
  LET cur == HeapTop(st.heap)
  IN ~Stale(st, cur, gh) /\ cur.gx = ex /\ cur.gy = ey

\* 692-703: follow the parent links from key k, start first
RECURSIVE Reconstruct(_, _, _)
Reconstruct(cameFrom, k, gh) ==
  LET d == k % 4
      rem == (k - d) \div 4
      y == rem % gh
      x == (rem - y) \div gh
      here == <<[gx |-> x, gy |-> y]>>
  IN IF k \in DOMAIN cameFrom THEN Reconstruct(cameFrom, cameFrom[k], gh) \o here ELSE here

\* ---------------------------------------------------------------------
\* Path helpers (Toolbar.jsx 730-804)
\* ---------------------------------------------------------------------
\* the loop shared by simplifyGridPath (734-745) and dedup (792-803):
\* drop a point lying on one axis with the last kept point and its successor
RECURSIVE DropCollinear(_, _, _)
DropCollinear(r, i, out) ==
  IF i > Len(r) - 1 THEN Append(out, r[Len(r)])
  ELSE LET prev == Last(out)
           cur == r[i]
           next == r[i + 1]
       IN IF ~(prev.x = cur.x /\ cur.x = next.x) /\ ~(prev.y = cur.y /\ cur.y = next.y)
            THEN DropCollinear(r, i + 1, Append(out, cur))
            ELSE DropCollinear(r, i + 1, out)

simplifyGridPath(gridPath, ox, oy) ==
  LET pts == [i \in 1..Len(gridPath) |->
                Pt(ox + gridPath[i].gx * Px(CELL), oy + gridPath[i].gy * Px(CELL))]
  IN IF Len(pts) <= 2 THEN pts ELSE DropCollinear(pts, 2, <<pts[1]>>)

\* 786-790: drop a point equal to the last kept point
RECURSIVE DropRepeats(_, _, _)
DropRepeats(pts, i, r) ==
  IF i > Len(pts) THEN r
  ELSE IF pts[i].x # Last(r).x \/ pts[i].y # Last(r).y
         THEN DropRepeats(pts, i + 1, Append(r, pts[i]))
         ELSE DropRepeats(pts, i + 1, r)

dedup(pts) ==
  IF Len(pts) <= 1 THEN pts
  ELSE LET r == DropRepeats(pts, 2, <<pts[1]>>)
       IN IF Len(r) <= 2 THEN r ELSE DropCollinear(r, 2, <<r[1]>>)

\* ---------------------------------------------------------------------
\* smoothKinks (Toolbar.jsx 808-871)
\* ---------------------------------------------------------------------
\* CELL * 1.2
MIN_SEG == (Px(CELL) * 12) \div 10

ReplaceLast(out, p) == SetAt(out, Len(out), p)

\* the for loop 822-864 from index i (1-based here), with out and changed
RECURSIVE SmoothPass(_, _, _, _)
SmoothPass(result, i, out, changed) ==
  IF i > Len(result) THEN [out |-> out, changed |-> changed]
  ELSE LET prev == Last(out)
           cur == result[i]
           dx == Abs(cur.x - prev.x)
           dy == Abs(cur.y - prev.y)
           segLen == dx + dy
       IN IF segLen > 0 /\ segLen < MIN_SEG /\ Len(out) >= 2
            THEN LET pp == out[Len(out) - 1] IN
                 IF dx = 0 /\ dy < MIN_SEG
                   THEN IF pp.y = prev.y
                          THEN SmoothPass(result, i + 1, ReplaceLast(out, Pt(prev.x, cur.y)), TRUE)
                        ELSE IF pp.x = prev.x
                          THEN SmoothPass(result, i + 1, out, TRUE)
                        ELSE SmoothPass(result, i + 1, Append(out, cur), changed)
                 ELSE IF dy = 0 /\ dx < MIN_SEG
                   THEN IF pp.x = prev.x
                          THEN SmoothPass(result, i + 1, ReplaceLast(out, Pt(cur.x, prev.y)), TRUE)
                        ELSE IF pp.y = prev.y
                          THEN SmoothPass(result, i + 1, out, TRUE)
                        ELSE SmoothPass(result, i + 1, Append(out, cur), changed)
                 ELSE SmoothPass(result, i + 1, Append(out, cur), changed)
            ELSE SmoothPass(result, i + 1, Append(out, cur), changed)

\* the pass loop 817-868
RECURSIVE SmoothPasses(_, _)
SmoothPasses(result, pass) ==
  IF pass >= 4 THEN result
  ELSE LET p == SmoothPass(result, 2, <<result[1]>>, FALSE)
           next == dedup(p.out)
       IN IF ~p.changed THEN next ELSE SmoothPasses(next, pass + 1)

smoothKinks(pts) == IF Len(pts) < 4 THEN pts ELSE SmoothPasses(pts, 0)

\* ---------------------------------------------------------------------
\* enforceOrthogonal (Toolbar.jsx 878-905)
\* ---------------------------------------------------------------------
RECURSIVE OrthoLoop(_, _, _)
OrthoLoop(pts, i, out) ==
  IF i > Len(pts) THEN out
  ELSE LET prev == Last(out)
           cur == pts[i]
       IN IF prev.x # cur.x /\ prev.y # cur.y
            THEN LET horizFirst == ~(Len(out) >= 2 /\ out[Len(out) - 1].x = prev.x)
                     elbow == IF horizFirst THEN Pt(cur.x, prev.y) ELSE Pt(prev.x, cur.y)
                 IN OrthoLoop(pts, i + 1, out \o <<elbow, cur>>)
            ELSE OrthoLoop(pts, i + 1, Append(out, cur))

enforceOrthogonal(pts) ==
  IF Len(pts) < 2 THEN pts ELSE dedup(OrthoLoop(pts, 2, <<pts[1]>>))

\* ---------------------------------------------------------------------
\* rerouteAroundObstacles (Toolbar.jsx 912-1009)
\* ---------------------------------------------------------------------
\* pad is in pixels
segmentIntersectsRect(ax, ay, bx, by, n, pad) ==
  LET left == n.x - Px(pad)
      right == n.x + n.width + Px(pad)
      top == n.y - Px(pad)
      bottom == n.y + n.height + Px(pad)
  IN IF ax = bx
       THEN ~(ax <= left \/ ax >= right) /\ ~(Max(ay, by) <= top \/ Min(ay, by) >= bottom)
     ELSE IF ay = by
       THEN ~(ay <= top \/ ay >= bottom) /\ ~(Max(ax, bx) <= left \/ Min(ax, bx) >= right)
     ELSE FALSE

\* const PAD = 4 (941)
REROUTE_PAD == 4

\* 954-960: index of the first obstacle the segment crosses, 0 if none
FirstHit(a, b, obstacles) ==
  LET hits == {k \in 1..Len(obstacles) :
                 segmentIntersectsRect(a.x, a.y, b.x, b.y, obstacles[k], REROUTE_PAD)}
  IN IF hits = {} THEN 0 ELSE CHOOSE k \in hits : \A j \in hits : k <= j

\* 964-998: the four detour points around hitNode for the segment a -> b
Detour(a, b, hitNode) ==
  LET left == hitNode.x - Px(NODE_PAD) - Px(REROUTE_PAD)
      right == hitNode.x + hitNode.width + Px(NODE_PAD) + Px(REROUTE_PAD)
      top == hitNode.y - Px(NODE_PAD) - Px(REROUTE_PAD)
      bottom == hitNode.y + hitNode.height + Px(NODE_PAD) + Px(REROUTE_PAD)
  IN IF a.x = b.x
       THEN LET goingDown == b.y > a.y
                detourX == IF Abs(a.x - left) <= Abs(a.x - right) THEN left ELSE right
                entryY == IF goingDown THEN top ELSE bottom
                exitY == IF goingDown THEN bottom ELSE top
            IN <<Pt(a.x, entryY), Pt(detourX, entryY), Pt(detourX, exitY), Pt(a.x, exitY)>>
       ELSE LET goingRight == b.x > a.x
                detourY == IF Abs(a.y - top) <= Abs(a.y - bottom) THEN top ELSE bottom
                entryX == IF goingRight THEN left ELSE right
                exitX == IF goingRight THEN right ELSE left
            IN <<Pt(entryX, a.y), Pt(entryX, detourY), Pt(exitX, detourY), Pt(exitX, a.y)>>

\* the for loop 949-1002
RECURSIVE ReroutePass(_, _, _, _, _)
ReroutePass(result, obstacles, i, out, changed) ==
  IF i > Len(result) THEN [out |-> out, changed |-> changed]
  ELSE LET a == Last(out)
           b == result[i]
           hit == FirstHit(a, b, obstacles)
       IN IF hit # 0
            THEN ReroutePass(result, obstacles, i + 1,
                             (out \o Detour(a, b, obstacles[hit])) \o <<b>>, TRUE)
            ELSE ReroutePass(result, obstacles, i + 1, Append(out, b), changed)

\* the pass loop 945-1006
RECURSIVE ReroutePasses(_, _, _)
ReroutePasses(result, obstacles, pass) ==
  IF pass >= 6 THEN result
  ELSE LET p == ReroutePass(result, obstacles, 2, <<result[1]>>, FALSE)
           next == dedup(p.out)
       IN IF ~p.changed THEN next ELSE ReroutePasses(next, obstacles, pass + 1)

rerouteAroundObstacles(pts, obstacles) ==
  IF Len(pts) < 2 \/ Len(obstacles) = 0 THEN pts ELSE ReroutePasses(pts, obstacles, 0)

\* ---------------------------------------------------------------------
\* ensurePerpendicularEntry (Toolbar.jsx 1018-1070)
\* ---------------------------------------------------------------------
IsHoriz(port) == port.dir = 0 \/ port.dir = 2

\* 1033-1044: the stub inserted behind the first point
StartStub(portF, nextF, fromPort) ==
  IF IsHoriz(fromPort) /\ portF.y # nextF.y
    THEN LET sx == portF.x + DirX(fromPort.dir) * Px(PORT_EXTEND)
         IN <<Pt(sx, portF.y), Pt(sx, nextF.y)>>
  ELSE IF ~IsHoriz(fromPort) /\ portF.x # nextF.x
    THEN LET sy == portF.y + DirY(fromPort.dir) * Px(PORT_EXTEND)
         IN <<Pt(portF.x, sy), Pt(nextF.x, sy)>>
  ELSE <<>>

\* 1055-1065: the stub inserted before the last point
EndStub(prevT, portT, toPort) ==
  IF IsHoriz(toPort) /\ prevT.y # portT.y
    THEN LET sx == portT.x + DirX(toPort.dir) * Px(PORT_EXTEND)
         IN <<Pt(sx, prevT.y), Pt(sx, portT.y)>>
  ELSE IF ~IsHoriz(toPort) /\ prevT.x # portT.x
    THEN LET sy == portT.y + DirY(toPort.dir) * Px(PORT_EXTEND)
         IN <<Pt(prevT.x, sy), Pt(portT.x, sy)>>
  ELSE <<>>

\* the same without the closing out.push(portT) of 1067
ensurePerpendicularEntryOpenEnd(pts, fromPort, toPort) ==
  IF Len(pts) < 2 THEN pts
  ELSE dedup(<<pts[1]>> \o StartStub(pts[1], pts[2], fromPort)
             \o SubSeq(pts, 2, Len(pts) - 1)
             \o EndStub(pts[Len(pts) - 1], pts[Len(pts)], toPort))

ensurePerpendicularEntry(pts, fromPort, toPort) ==
  IF Len(pts) < 2 THEN pts
  ELSE dedup(<<pts[1]>> \o StartStub(pts[1], pts[2], fromPort)
             \o SubSeq(pts, 2, Len(pts) - 1)
             \o EndStub(pts[Len(pts) - 1], pts[Len(pts)], toPort)
             \o <<pts[Len(pts)]>>)

\* ---------------------------------------------------------------------
\* fallbackRoute (Toolbar.jsx 748-782)
\* ---------------------------------------------------------------------
\* the stub end of a port (754-755, 1077-1080)
Ext(port) == Pt(port.x + DirX(port.dir) * Px(PORT_EXTEND), port.y + DirY(port.dir) * Px(PORT_EXTEND))

\* 759-775: the bend points between the two stub ends
FallbackBends(fp, tp) ==
  LET extF == Ext(fp)
      extT == Ext(tp)
  IN IF IsHoriz(fp) /\ IsHoriz(tp)
       THEN LET midX == (extF.x + extT.x) \div 2 IN <<Pt(midX, extF.y), Pt(midX, extT.y)>>
     ELSE IF ~IsHoriz(fp) /\ ~IsHoriz(tp)
       THEN LET midY == (extF.y + extT.y) \div 2 IN <<Pt(extF.x, midY), Pt(extT.x, midY)>>
     ELSE IF IsHoriz(fp) THEN <<Pt(extT.x, extF.y)>>
     ELSE <<Pt(extF.x, extT.y)>>

\* 757-780: the point list after each stage, the returned route last
FallbackStages(fp, tp, obstacles) ==
  LET pts == <<Pt(fp.x, fp.y), Ext(fp)>> \o FallbackBends(fp, tp) \o <<Ext(tp), Pt(tp.x, tp.y)>>
      deduped == dedup(pts)
      cleaned == enforceOrthogonal(deduped)
      rerouted == rerouteAroundObstacles(cleaned, obstacles)
  IN <<pts, deduped, cleaned, rerouted, ensurePerpendicularEntry(rerouted, fp, tp)>>

fallbackRoute(fp, tp, obstacles) == Last(FallbackStages(fp, tp, obstacles))

\* ---------------------------------------------------------------------
\* routeEdgeWithPorts (Toolbar.jsx 1074-1172)
\* ---------------------------------------------------------------------
Clamp(v, hi) == Max(0, Min(hi, v))

\* 1077-1085: the grid cell of a port's stub end
StubCell(port, bbox) ==
  LET e == Ext(port)
  IN [gx |-> Clamp(RoundDiv(e.x - bbox.minX, Px(CELL)), GridW(bbox) - 1),
      gy |-> Clamp(RoundDiv(e.y - bbox.minY, Px(CELL)), GridH(bbox) - 1)]

\* 1075-1088: the occupancy grid of one edge, both stub cells forced free
EdgeGrid(fromPort, toPort, obstacles, bbox) ==
  LET gw == GridW(bbox)
      s == StubCell(fromPort, bbox)
      e == StubCell(toPort, bbox)
      grid == buildGrid(obstacles, bbox)
  IN [i \in DOMAIN grid |->
        IF i = s.gy * gw + s.gx \/ i = e.gy * gw + e.gx THEN 0 ELSE grid[i]]

\* 1106-1120
AlignStart(s, fromPort) ==
  IF IsHoriz(fromPort) /\ s[1].x = s[2].x
    THEN SetAt(s, 1, Pt(s[1].x, fromPort.y))
  ELSE IF ~IsHoriz(fromPort) /\ s[1].y = s[2].y
    THEN SetAt(s, 1, Pt(fromPort.x, s[1].y))
  ELSE IF IsHoriz(fromPort) /\ s[1].y = s[2].y
    THEN SetAt(SetAt(s, 1, Pt(s[1].x, fromPort.y)), 2, Pt(s[2].x, fromPort.y))
  ELSE IF ~IsHoriz(fromPort) /\ s[1].x = s[2].x
    THEN SetAt(SetAt(s, 1, Pt(fromPort.x, s[1].y)), 2, Pt(fromPort.x, s[2].y))
  ELSE s

\* 1123-1138
AlignEnd(s, toPort) ==
  LET li == Len(s) IN
  IF IsHoriz(toPort) /\ s[li].x = s[li - 1].x
    THEN SetAt(s, li, Pt(s[li].x, toPort.y))
  ELSE IF ~IsHoriz(toPort) /\ s[li].y = s[li - 1].y
    THEN SetAt(s, li, Pt(toPort.x, s[li].y))
  ELSE IF IsHoriz(toPort) /\ s[li].y = s[li - 1].y
    THEN SetAt(SetAt(s, li, Pt(s[li].x, toPort.y)), li - 1, Pt(s[li - 1].x, toPort.y))
  ELSE IF ~IsHoriz(toPort) /\ s[li].x = s[li - 1].x
    THEN SetAt(SetAt(s, li, Pt(toPort.x, s[li].y)), li - 1, Pt(toPort.x, s[li - 1].y))
  ELSE s

\* 1104-1146
AlignEndpoints(simplified, fromPort, toPort) ==
  IF Len(simplified) >= 2 THEN AlignEnd(AlignStart(simplified, fromPort), toPort)
  ELSE IF IsHoriz(fromPort) THEN <<Pt(simplified[1].x, fromPort.y)>>
  ELSE <<Pt(fromPort.x, simplified[1].y)>>

\* 1149-1167
Stitch(simplified, fromPort, toPort) ==
  LET first == simplified[1]
      last == simplified[Len(simplified)]
      headElbow == IF IsHoriz(fromPort)
                     THEN (IF first.y # fromPort.y THEN <<Pt(first.x, fromPort.y)>> ELSE <<>>)
                     ELSE (IF first.x # fromPort.x THEN <<Pt(fromPort.x, first.y)>> ELSE <<>>)
      tailElbow == IF IsHoriz(toPort)
                     THEN (IF last.y # toPort.y THEN <<Pt(last.x, toPort.y)>> ELSE <<>>)
                     ELSE (IF last.x # toPort.x THEN <<Pt(toPort.x, last.y)>> ELSE <<>>)
  IN <<Pt(fromPort.x, fromPort.y)>> \o headElbow \o simplified \o tailElbow \o <<Pt(toPort.x, toPort.y)>>

\* 1169-1171: the point list after each clean-up stage, the returned route last
CleanUpStages(result, fromPort, toPort, obstacles) ==
  LET deduped == dedup(result)
      smoothed == smoothKinks(deduped)
      cleaned == enforceOrthogonal(smoothed)
      rerouted == rerouteAroundObstacles(cleaned, obstacles)
  IN <<result, deduped, smoothed, cleaned, rerouted,
       ensurePerpendicularEntry(rerouted, fromPort, toPort)>>

CleanUp(result, fromPort, toPort, obstacles) ==
  Last(CleanUpStages(result, fromPort, toPort, obstacles))

\* the same with astar's null handed on instead of the call of 1093
RouteStagesNullOnFailure(gridPath, fromPort, toPort, obstacles, bbox) ==
  IF gridPath = <<>> THEN << <<>> >>
  ELSE LET simplified == simplifyGridPath(gridPath, bbox.minX, bbox.minY)
       IN CleanUpStages(Stitch(AlignEndpoints(simplified, fromPort, toPort), fromPort, toPort),
                        fromPort, toPort, obstacles)

\* 1092-1171: the stages behind the route for the outcome of the search;
\* gridPath is <<>> when astar returned null
RouteStages(gridPath, fromPort, toPort, obstacles, bbox) ==
  IF gridPath = <<>> THEN FallbackStages(fromPort, toPort, obstacles)
  ELSE LET simplified == simplifyGridPath(gridPath, bbox.minX, bbox.minY)
       IN CleanUpStages(Stitch(AlignEndpoints(simplified, fromPort, toPort), fromPort, toPort),
                        fromPort, toPort, obstacles)

\* 1090-1171: what routeEdgeWithPorts returns
RouteFromSearch(gridPath, fromPort, toPort, obstacles, bbox) ==
  Last(RouteStages(gridPath, fromPort, toPort, obstacles, bbox))

\* ---------------------------------------------------------------------
\* routeAllEdges (Toolbar.jsx 1176-1245)
\* ---------------------------------------------------------------------
\* 1189-1194
EdgeDist(assignments, e) ==
  IF e.id \notin DOMAIN assignments THEN 0
  ELSE LET a == assignments[e.id]
       IN Abs(a.from.x - a.to.x) + Abs(a.from.y - a.to.y)

\* the edges taken in the order of the list
SortByDistUnsorted(edges, assignments, i) == SubSeq(edges, 1, i)

\* 1188-1195: stable sort by dist
RECURSIVE SortByDist(_, _, _)
SortByDist(edges, assignments, i) ==
  IF i = 0 THEN <<>>
  ELSE LET sorted == SortByDist(edges, assignments, i - 1)
           e == edges[i]
           k == Cardinality({j \in 1..Len(sorted) :
                               EdgeDist(assignments, sorted[j]) <= EdgeDist(assignments, e)})
       IN SubSeq(sorted, 1, k) \o <<e>> \o SubSeq(sorted, k + 1, Len(sorted))

\* the caller's edge list had sort (1195) worked on it directly
EdgesSortedInPlace(edges, sorted) == sorted

\* 1188: sort works on the copy [...edges]; the caller's list stays as it is
EdgesAfterSort(edges, sorted) == edges

\* 1209
Obstacles(nodes, edge) ==
  LET Other(n) == n.id # edge.from /\ n.id # edge.to
  IN SelectSeq(nodes, Other)

\* 1219-1239: the in-bounds cells one segment marks
SegmentCells(p, q, bbox) ==
  LET gw == GridW(bbox)
      gh == GridH(bbox)
      ax == RoundDiv(p.x - bbox.minX, Px(CELL))
      ay == RoundDiv(p.y - bbox.minY, Px(CELL))
      bx == RoundDiv(q.x - bbox.minX, Px(CELL))
      by == RoundDiv(q.y - bbox.minY, Px(CELL))
  IN IF ax = bx
       THEN {y * gw + ax : y \in {v \in Min(ay, by)..Max(ay, by) : ax >= 0 /\ ax < gw /\ v >= 0 /\ v < gh}}
       ELSE {ay * gw + x : x \in {v \in Min(ax, bx)..Max(ax, bx) : v >= 0 /\ v < gw /\ ay >= 0 /\ ay < gh}}

PathCells(path, bbox) ==
  UNION {SegmentCells(path[i], path[i + 1], bbox) : i \in 1..(Len(path) - 1)}

\* 1215-1241
\* the same without the isDragging test of 1215
MarkUsageAlways(usage, path, dragging, bbox) ==
  LET cells == PathCells(path, bbox)
  IN [i \in DOMAIN usage |-> IF i \in cells THEN 1 ELSE usage[i]]

\* the same with the isDragging test of 1215 turned round
MarkUsageWhileDragging(usage, path, dragging, bbox) ==
  IF ~dragging THEN usage
  ELSE LET cells == PathCells(path, bbox)
       IN [i \in DOMAIN usage |-> IF i \in cells THEN 1 ELSE usage[i]]

MarkUsage(usage, path, dragging, bbox) ==
  IF dragging THEN usage
  ELSE LET cells == PathCells(path, bbox)
       IN [i \in DOMAIN usage |-> IF i \in cells THEN 1 ELSE usage[i]]

\* ---------------------------------------------------------------------
\* nearestPerimeterPoint (Toolbar.jsx 1249-1286)
\* ---------------------------------------------------------------------
FracMin(a, b) == IF FracLess(b, a) THEN b ELSE a
FracMax(a, b) == IF FracLess(a, b) THEN b ELSE a

\* (t - start) / len without the test for len > 0
SideOffsetUnguarded(t, start, len) == Frac(t - start, len)

\* 1256, 1262, 1268, 1274: the offset of a candidate along its side
SideOffset(t, start, len) == IF len > 0 THEN Frac(t - start, len) ELSE Frac(1, 2)

\* 1250-1275: the four candidates in push order
Candidates(node, px, py) ==
  LET tx == Max(node.x, Min(node.x + node.width, px))
      ry == Max(node.y, Min(node.y + node.height, py))
  IN <<[side |-> "top", x |-> tx, y |-> node.y, offset |-> SideOffset(tx, node.x, node.width)],
       [side |-> "right", x |-> node.x + node.width, y |-> ry,
        offset |-> SideOffset(ry, node.y, node.height)],
       [side |-> "bottom", x |-> tx, y |-> node.y + node.height,
        offset |-> SideOffset(tx, node.x, node.width)],
       [side |-> "left", x |-> node.x, y |-> ry, offset |-> SideOffset(ry, node.y, node.height)]>>

\* 1279: the squared distance of the query point from a candidate
DistSq(c, px, py) == (px - c.x) * (px - c.x) + (py - c.y) * (py - c.y)

\* 1277-1281: the first candidate no other candidate is strictly nearer than
Nearest(cs, px, py) ==
  cs[CHOOSE i \in 1..Len(cs) :
       /\ \A j \in 1..Len(cs) : DistSq(cs[i], px, py) <= DistSq(cs[j], px, py)
       /\ \A j \in 1..(i - 1) : DistSq(cs[j], px, py) > DistSq(cs[i], px, py)]

nearestPerimeterPoint(node, px, py) ==
  LET best == Nearest(Candidates(node, px, py), px, py)
  IN [side |-> best.side, x |-> best.x, y |-> best.y,
      offset |-> FracMax(Frac(1, 10), FracMin(Frac(9, 10), best.offset))]

\* ---------------------------------------------------------------------
\* Diagrams the caller passes (DiagramCanvas.jsx 94-98 re-invokes the
\* router whenever nodes, edges or isDragging change).  Nodes have the
\* editor's default size (App.jsx 121-122).
\* ---------------------------------------------------------------------
MaxEdges == 3
MaxPortEdges == 4

NodeA(x, y) == Node("A", x, y, 140, 50)
NodeB(x, y) == Node("B", x, y, 140, 50)
NodeC(x, y) == Node("C", x, y, 140, 50)

Auto(id, from, to) == Edge(id, from, to, NoPort, NoPort)
Right7 == PinnedPort("right", Frac(7, 10))
Left3 == PinnedPort("left", Frac(3, 10))

Diagram(ns, pool) == [nodes |-> ns, pool |-> pool]

\* two nodes side by side; e3 references a node that is not there
SideBySide ==
  Diagram(<<NodeA(100, 100), NodeB(400, 100)>>,
          {Auto("e1", "A", "B"), Auto("e2", "B", "A"), Edge("e3", "A", "Z", Right7, Left3)})
\* B's right edge and A's left edge on one vertical line
CornerToCorner ==
  Diagram(<<NodeA(460, 230), NodeB(320, 160)>>, {Auto("e1", "A", "B"), Auto("e2", "B", "A")})
\* B above A, one target port pinned to B's right side
PinnedAbove ==
  Diagram(<<NodeA(190, 260), NodeB(120, 170)>>,
          {Auto("e1", "A", "B"), Auto("e2", "B", "A"), Edge("e3", "A", "B", NoPort, Right7)})
\* B lies 40 pixels below C: the stub cell under C is walled in
Blocked ==
  Diagram(<<NodeA(200, 320), NodeB(310, 230), NodeC(310, 140)>>,
          {Auto("e1", "C", "A"), Auto("e2", "C", "B"), Auto("e3", "B", "A")})
\* two edges of equal length whose routes share grid cells
Crossing ==
  Diagram(<<NodeA(190, 250), NodeB(170, 140), NodeC(300, 200)>>,
          {Auto("e1", "C", "A"), Auto("e2", "A", "B"), Auto("e3", "B", "A")})
\* C sits on the straight line from A to B
Between ==
  Diagram(<<NodeA(100, 100), NodeB(600, 100), NodeC(350, 100)>>, {Auto("e1", "A", "B")})
\* C's padded rectangle reaches over the stub of A's port
BesideTarget ==
  Diagram(<<NodeA(490, 370), NodeB(330, 280), NodeC(270, 150)>>, {Auto("e1", "C", "A")})
\* C's padded rectangle holds the stub end of A's port, 30 pixels from B
Squeezed ==
  Diagram(<<NodeA(100, 340), NodeB(270, 390), NodeC(270, 330)>>, {Auto("e1", "A", "B")})
NoNodes == Diagram(<<>>, {Auto("e1", "A", "B")})
\* B anywhere around A, on top of it included
Around ==
  {Diagram(<<NodeA(300, 300), NodeB(x, y)>>, {Auto("e1", "A", "B"), Edge("e2", "B", "A", Left3, NoPort)}) :
     x \in {90, 300, 520}, y \in {150, 300, 430}}

Diagrams ==
  {SideBySide, CornerToCorner, PinnedAbove, Blocked, Crossing, Between, BesideTarget, Squeezed,
   NoNodes}
    \cup Around
SessionDiagrams == {SideBySide, Blocked, Crossing}

\* sequences of distinct pool edges, at most n long
RECURSIVE EdgeLists(_, _)
EdgeLists(pool, n) ==
  IF n = 0 THEN {<<>>}
  ELSE LET shorter == EdgeLists(pool, n - 1)
       IN shorter \cup
          {Append(l, e) : l \in {m \in shorter : Len(m) = n - 1},
                          e \in pool}

Distinct(l) == \A i, j \in 1..Len(l) : i # j => l[i] # l[j]

InputsOf(diagrams, n) ==
  UNION {{[nodes |-> d.nodes, edges |-> l, isDragging |-> dr] :
            l \in {m \in EdgeLists(d.pool, n) : Distinct(m)},
            dr \in BOOLEAN} : d \in diagrams}

Inputs == InputsOf(Diagrams, MaxEdges)

\* ---------------------------------------------------------------------
\* State
\* ---------------------------------------------------------------------
VARIABLES
  nodes,        \* argument of the running call
  edges,        \* argument of the running call
  isDragging,   \* argument of the running call
  pc,           \* "idle", "loop", "search", "done"; "assigned" after the port assignment alone
  assignments,  \* 1179
  bbox,         \* 1180
  usageGrid,    \* 1185
  sorted,       \* 1188: the edges the for loop 1201 has still to visit
  routes,       \* 1197
  cur,          \* <<the edge being routed, with its ports and obstacles>>
  grid,         \* 1075: occupancy grid of the edge being routed
  search,       \* heap, gScore and cameFrom of the running astar
  via,          \* edge id -> "astar" or "fallback": how its route was built
  gridPaths,    \* edge id -> what astar returned for it (<<>> for null)
  blocked,      \* edge id -> the occupied cells of the grid it was searched on
  order,        \* ids of the edges routed so far in this call, in order
  prev,         \* inputs and results of the calls before this one, the latest first
  given,        \* <<the arguments as the caller passed them>>
  snap,         \* <<the last call of nearestPerimeterPoint: node, point, result>>
  heap,         \* a MinHeap on its own: its array d, and what the last pop returned
  app,          \* App.jsx 33-56: the state and refs of App, the module counters 8-10, localStorage
  canvas,       \* DiagramCanvas.jsx 67-88: the state of DiagramCanvas
  panel         \* MermaidPanel.jsx 10-31: props, preview element and renders of MermaidPanel

vars == <<nodes, edges, isDragging, pc, assignments, bbox, usageGrid, sorted,
          routes, cur, grid, search, via, gridPaths, blocked, order, prev, given, snap,
          heap, app, canvas, panel>>

\* the state outside routeAllEdges and nearestPerimeterPoint
ui == <<heap, app, canvas, panel>>

\* null
Null == 0

\* App.jsx 33-56 and 8-10: App as mounted, with nothing in localStorage
NoApp ==
  [nodes |-> {}, edges |-> {}, containers |-> {},
   selectedNode |-> Null, selectedEdge |-> Null, selectedContainer |-> Null,
   connectingFrom |-> Null, creatingContainer |-> FALSE,
   dirty |-> FALSE,
   showSaveDialog |-> FALSE, showOpenDialog |-> FALSE, showUnsavedWarning |-> FALSE,
   saveName |-> "", diagramName |-> "",
   pendingAction |-> <<>>,
   nextNodeId |-> 1, nextEdgeId |-> 1, nextContainerId |-> 1,
   saved |-> {}, reading |-> {},
   touched |-> FALSE, inSync |-> FALSE,
   saveFrom |-> "none", watched |-> <<>>]

\* DiagramCanvas.jsx 67-88: DiagramCanvas as mounted
NoCanvas ==
  [dragging |-> Null, isPanning |-> FALSE, dragConnecting |-> FALSE,
   draggingEndpoint |-> <<>>, endpointPreview |-> FALSE,
   containerDragStart |-> FALSE, containerDragCurrent |-> FALSE,
   draggingContainer |-> Null, resizingContainer |-> Null]

\* MermaidPanel.jsx 10-12: MermaidPanel as mounted, preview hidden
NoPanel ==
  [code |-> "", showPreview |-> FALSE, mounted |-> TRUE, preview |-> <<>>,
   renders |-> {}, nextRender |-> 1, wroteCancelled |-> FALSE]

\* 481: new MinHeap(), with no pop made yet
NoHeap == [d |-> <<>>, ret |-> <<>>]

NoBBox == [minX |-> 0, minY |-> 0, maxX |-> 0, maxY |-> 0]
NoSearch == [heap |-> <<>>, gScore |-> <<>>, cameFrom |-> <<>>]

Init ==
  /\ nodes = <<>>
  /\ edges = <<>>
  /\ isDragging = FALSE
  /\ pc = "idle"
  /\ assignments = <<>>
  /\ bbox = NoBBox
  /\ usageGrid = <<>>
  /\ sorted = <<>>
  /\ routes = <<>>
  /\ cur = <<>>
  /\ grid = <<>>
  /\ search = NoSearch
  /\ via = <<>>
  /\ gridPaths = <<>>
  /\ blocked = <<>>
  /\ order = <<>>
  /\ prev = <<>>
  /\ given = <<>>
  /\ snap = <<>>
  /\ heap = NoHeap
  /\ app = NoApp
  /\ canvas = NoCanvas
  /\ panel = NoPanel

\* routeAllEdges(nodes, edges, isDragging) is entered: 1177-1199
Call(in) ==
  /\ pc = "idle"
  /\ given' = <<in>>
  /\ nodes' = in.nodes
  /\ isDragging' = in.isDragging
  /\ IF Len(in.nodes) = 0 \/ Len(in.edges) = 0
       THEN /\ pc' = "done"
            /\ edges' = in.edges
            /\ UNCHANGED <<assignments, bbox, usageGrid, sorted>>
       ELSE /\ pc' = "loop"
            /\ assignments' = computePortAssignments(in.nodes, in.edges)
            /\ bbox' = computeBBox(in.nodes)
            /\ usageGrid' = ZeroGrid(GridW(bbox'), GridH(bbox'))
            /\ sorted' = SortByDist(in.edges, assignments', Len(in.edges))
            /\ edges' = EdgesAfterSort(in.edges, sorted')
  \* 1197 (and the {} of 1177): the map to return starts empty
  /\ routes' = <<>>
  /\ via' = <<>>
  /\ gridPaths' = <<>>
  /\ blocked' = <<>>
  /\ order' = <<>>
  /\ UNCHANGED <<cur, grid, search, prev, snap, ui>>

\* 1201-1207: the loop skips an edge without a full assignment
SkipEdge ==
  /\ pc = "loop"
  /\ sorted # <<>>
  /\ sorted[1].id \notin DOMAIN assignments
  /\ sorted' = Tail(sorted)
  /\ UNCHANGED <<nodes, edges, isDragging, pc, assignments, bbox, usageGrid,
                 routes, cur, grid, search, via, gridPaths, blocked, order, prev, given, snap, ui>>

\* 1201-1210, 1075-1090 up to the first turn of astar's loop
StartSearch ==
  /\ pc = "loop"
  /\ sorted # <<>>
  /\ sorted[1].id \in DOMAIN assignments
  /\ LET edge == sorted[1]
         a == assignments[edge.id]
         obstacles == Obstacles(nodes, edge)
         s == StubCell(a.from, bbox)
         e == StubCell(a.to, bbox)
     IN /\ cur' = <<[edge |-> edge, from |-> a.from, to |-> a.to, obstacles |-> obstacles,
                     ex |-> e.gx, ey |-> e.gy]>>
        /\ grid' = EdgeGrid(a.from, a.to, obstacles, bbox)
        /\ search' = AstarInit(s.gx, s.gy, a.from.dir, e.gx, e.gy, GridH(bbox))
  /\ sorted' = Tail(sorted)
  /\ pc' = "search"
  /\ UNCHANGED <<nodes, edges, isDragging, assignments, bbox, usageGrid, routes,
                 via, gridPaths, blocked, order, prev, given, snap, ui>>

\* one turn of astar's while loop that does not return (686-723)
AstarStep ==
  /\ pc = "search"
  /\ search.heap # <<>>
  /\ ~AtGoal(search, GridH(bbox), cur[1].ex, cur[1].ey)
  /\ search' = AstarExpand(search, grid, usageGrid, GridW(bbox), GridH(bbox), cur[1].ex, cur[1].ey)
  /\ UNCHANGED <<nodes, edges, isDragging, pc, assignments, bbox, usageGrid, sorted,
                 routes, cur, grid, via, gridPaths, blocked, order, prev, given, snap, ui>>

\* the rest of the loop body once astar has returned gridPath: 1092-1241
Record(gridPath, how) ==
  LET c == cur[1]
      path == RouteFromSearch(gridPath, c.from, c.to, c.obstacles, bbox)
  IN /\ routes' = (c.edge.id :> path) @@ routes
     /\ via' = (c.edge.id :> how) @@ via
     /\ gridPaths' = (c.edge.id :> gridPath) @@ gridPaths
     /\ blocked' = (c.edge.id :> {i \in DOMAIN grid : grid[i] # 0}) @@ blocked
     /\ order' = Append(order, c.edge.id)
     /\ usageGrid' = MarkUsage(usageGrid, path, isDragging, bbox)
     /\ cur' = <<>>
     /\ grid' = <<>>
     /\ search' = NoSearch
     /\ pc' = "loop"
     /\ UNCHANGED <<nodes, edges, isDragging, assignments, bbox, sorted, prev, given, snap, ui>>

\* astar pops the goal cell and returns the path (691-704)
PathFound ==
  /\ pc = "search"
  /\ search.heap # <<>>
  /\ AtGoal(search, GridH(bbox), cur[1].ex, cur[1].ey)
  /\ LET top == HeapTop(search.heap)
     IN Record(Reconstruct(search.cameFrom, stateKey(top.gx, top.gy, top.dir, GridH(bbox)), GridH(bbox)),
               "astar")

\* astar empties the heap and returns null (725, 1092)
SearchFailed ==
  /\ pc = "search"
  /\ search.heap = <<>>
  /\ Record(<<>>, "fallback")

\* 1244
Return ==
  /\ pc = "loop"
  /\ sorted = <<>>
  /\ pc' = "done"
  /\ UNCHANGED <<nodes, edges, isDragging, assignments, bbox, usageGrid, sorted,
                 routes, cur, grid, search, via, gridPaths, blocked, order, prev, given, snap, ui>>

Next ==
  \/ \E in \in Inputs : Call(in)
  \/ SkipEdge
  \/ StartSearch
  \/ AstarStep
  \/ PathFound
  \/ SearchFailed
  \/ Return

\* one call of routeAllEdges on any diagram
Spec == Init /\ [][Next]_vars

\* ---------------------------------------------------------------------
\* Two calls in a row, as between two renders
\* ---------------------------------------------------------------------
RECURSIVE Perms(_)
Perms(l) ==
  IF Len(l) <= 1 THEN {l}
  ELSE UNION {{<<l[i]>> \o q : q \in Perms(SubSeq(l, 1, i - 1) \o SubSeq(l, i + 1, Len(l)))} :
                i \in 1..Len(l)}

\* the edges whose two nodes exist, in their order
LiveEdges(ns, es) ==
  LET Live(e) == HasNode(ns, e.from) /\ HasNode(ns, e.to)
  IN SelectSeq(es, Live)

\* the second call gets the same nodes; the edges in any order, or without
\* the edges that reference a missing node; either flag
SessionInputs ==
  IF prev = <<>> THEN InputsOf(SessionDiagrams, MaxEdges)
  ELSE {[nodes |-> prev[1].nodes, edges |-> es, isDragging |-> dr] :
          es \in Perms(prev[1].edges) \cup {LiveEdges(prev[1].nodes, prev[1].edges)},
          dr \in BOOLEAN}

\* the caller's next render: the result of the finished call is kept for
\* comparison; every local of routeAllEdges is gone
Rerender ==
  /\ pc = "done"
  /\ prev = <<>>
  /\ prev' = <<[nodes |-> nodes, edges |-> edges, isDragging |-> isDragging,
                assignments |-> assignments, routes |-> routes, via |-> via,
                gridPaths |-> gridPaths, blocked |-> blocked, order |-> order]>>
  /\ nodes' = <<>>
  /\ edges' = <<>>
  /\ isDragging' = FALSE
  /\ pc' = "idle"
  /\ assignments' = <<>>
  /\ bbox' = NoBBox
  /\ usageGrid' = <<>>
  /\ sorted' = <<>>
  /\ routes' = <<>>
  /\ via' = <<>>
  /\ gridPaths' = <<>>
  /\ blocked' = <<>>
  /\ order' = <<>>
  /\ given' = <<>>
  /\ UNCHANGED <<cur, grid, search, snap, ui>>

NextSession ==
  \/ \E in \in SessionInputs : Call(in)
  \/ SkipEdge
  \/ StartSearch
  \/ AstarStep
  \/ PathFound
  \/ SearchFailed
  \/ Return
  \/ Rerender

SpecSession == Init /\ [][NextSession]_vars

\* ---------------------------------------------------------------------
\* The port assignment alone (the first step of every call, 1179), on
\* diagrams with more endpoints per side
\* ---------------------------------------------------------------------
Bottom3 == PinnedPort("bottom", Frac(3, 10))

PortPool ==
  {Auto("e1", "A", "B"), Auto("e2", "A", "C"), Auto("e3", "C", "A"),
   Edge("e4", "A", "B", Right7, NoPort), Edge("e5", "C", "A", NoPort, Bottom3),
   Edge("e6", "B", "A", NoPort, Right7)}

PortDiagrams ==
  {Diagram(<<NodeA(100, 200), NodeB(400, 100), NodeC(400, 300)>>, PortPool),
   Diagram(<<NodeA(300, 100), NodeB(100, 400), NodeC(500, 400)>>, PortPool),
   Diagram(<<NodeA(100, 200), NodeB(400, 100), NodeC(500, 100)>>, PortPool),
   \* B on A's diagonal, C on top of A
   Diagram(<<NodeA(100, 200), NodeB(300, 400), NodeC(100, 200)>>, PortPool)}

PortInputs == InputsOf(PortDiagrams, MaxPortEdges)

\* computePortAssignments(nodes, edges) as routeAllEdges calls it
AssignPorts(in) ==
  /\ pc = "idle"
  /\ ~in.isDragging
  /\ nodes' = in.nodes
  /\ edges' = in.edges
  /\ assignments' = computePortAssignments(in.nodes, in.edges)
  /\ pc' = "assigned"
  /\ UNCHANGED <<isDragging, bbox, usageGrid, sorted, routes, cur, grid, search,
                 via, gridPaths, blocked, order, prev, given, snap, ui>>

\* the assignment map is a local of the call: nothing of it is kept
Forget ==
  /\ pc = "assigned"
  /\ nodes' = <<>>
  /\ edges' = <<>>
  /\ assignments' = <<>>
  /\ pc' = "idle"
  /\ UNCHANGED <<isDragging, bbox, usageGrid, sorted, routes, cur, grid, search,
                 via, gridPaths, blocked, order, prev, given, snap, ui>>

NextPorts ==
  \/ \E in \in PortInputs : AssignPorts(in)
  \/ Forget

SpecPorts == Init /\ [][NextPorts]_vars

\* ---------------------------------------------------------------------
\* Dragging an edge endpoint along a node (DiagramCanvas.jsx 296-302):
\* every pointer move snaps the pointer to the node's perimeter
\* ---------------------------------------------------------------------
\* nodes of the default size, and nodes without width, height or both
SnapNodes == {Node("A", 100, 100, w, h) : w \in {0, 140}, h \in {0, 50}}
\* pointer positions outside, on and inside the node
QueryXs == {60, 100, 107, 170, 233, 240, 300}
QueryYs == {70, 100, 102, 125, 148, 150, 200}

Snap(node, px, py) ==
  /\ snap' = <<[node |-> node, px |-> px, py |-> py, result |-> nearestPerimeterPoint(node, px, py)]>>
  /\ UNCHANGED <<nodes, edges, isDragging, pc, assignments, bbox, usageGrid, sorted,
                 routes, cur, grid, search, via, gridPaths, blocked, order, prev, given, ui>>

NextSnap == \E node \in SnapNodes, x \in QueryXs, y \in QueryYs : Snap(node, Px(x), Px(y))

SpecSnap == Init /\ [][NextSnap]_vars

\* ---------------------------------------------------------------------
\* A call, other calls, and the first call again
\* ---------------------------------------------------------------------
MaxBetween == 1

Reverse(l) == [i \in 1..Len(l) |-> l[Len(l) + 1 - i]]

\* the first call: the crossing diagram or the one with a stale edge, all
\* their edges or all but one, in any order, either flag
FirstInputs ==
  UNION {{[nodes |-> d.nodes, edges |-> es, isDragging |-> dr] :
            es \in {m \in EdgeLists(d.pool, MaxEdges) : Distinct(m) /\ Len(m) >= Cardinality(d.pool) - 1},
            dr \in BOOLEAN} : d \in {Crossing, SideBySide}}

\* the calls in between: the first call with the other flag, with its
\* edges in reverse order, or another diagram
BetweenInputs(first) ==
  {[nodes |-> first.nodes, edges |-> first.edges, isDragging |-> ~first.isDragging],
   [nodes |-> first.nodes, edges |-> Reverse(first.edges), isDragging |-> first.isDragging],
   [nodes |-> Blocked.nodes,
    edges |-> <<Auto("e1", "C", "A"), Auto("e2", "C", "B"), Auto("e3", "B", "A")>>,
    isDragging |-> FALSE]}

\* the first call is being made again
IsAgain == prev # <<>> /\ given # <<>> /\ given[1] = Last(prev).given

CallsInputs ==
  IF prev = <<>> THEN FirstInputs
  ELSE {Last(prev).given}
       \cup (IF Len(prev) <= MaxBetween THEN BetweenInputs(Last(prev).given) ELSE {})

\* the caller's next render (DiagramCanvas.jsx 94-98): what the finished
\* call was given and what it returned is kept for comparison.  Its
\* locals are left as they are; the next call allocates its own.
NextRender ==
  /\ pc = "done"
  /\ ~IsAgain
  /\ prev' = <<[given |-> given[1], nodes |-> nodes, edges |-> edges, isDragging |-> isDragging,
                assignments |-> assignments, routes |-> routes, via |-> via,
                gridPaths |-> gridPaths, blocked |-> blocked, order |-> order]>> \o prev
  /\ pc' = "idle"
  /\ UNCHANGED <<nodes, edges, isDragging, assignments, bbox, usageGrid, sorted,
                 routes, cur, grid, search, via, gridPaths, blocked, order, given, snap, ui>>

NextCalls ==
  \/ \E in \in CallsInputs : Call(in)
  \/ SkipEdge
  \/ StartSearch
  \/ AstarStep
  \/ PathFound
  \/ SearchFailed
  \/ Return
  \/ NextRender

SpecCalls == Init /\ [][NextCalls]_vars

\* ---------------------------------------------------------------------
\* A MinHeap under any sequence of push and pop (Toolbar.jsx 481-510)
\* ---------------------------------------------------------------------
MaxHeap == 4
MaxF == 2

\* 697, 715: what astar pushes; gx tells entries of equal f apart
HeapItems == {[gx |-> t, gy |-> 0, dir |-> 0, g |-> 0, f |-> f] : t \in 0..1, f \in 0..MaxF}

\* 483: push(v)
Push(v) ==
  /\ Len(heap.d) < MaxHeap
  /\ heap' = [d |-> HeapPush(heap.d, v), ret |-> <<>>]
  /\ UNCHANGED <<nodes, edges, isDragging, pc, assignments, bbox, usageGrid, sorted,
                 routes, cur, grid, search, via, gridPaths, blocked, order, prev, given, snap,
                 app, canvas, panel>>

\* 484-489: pop() on a heap that holds something (686: the caller tests size);
\* ret keeps the returned element and the array as it was
Pop ==
  /\ heap.d # <<>>
  /\ heap' = [d |-> HeapPop(heap.d), ret |-> <<HeapTop(heap.d), heap.d>>]
  /\ UNCHANGED <<nodes, edges, isDragging, pc, assignments, bbox, usageGrid, sorted,
                 routes, cur, grid, search, via, gridPaths, blocked, order, prev, given, snap,
                 app, canvas, panel>>

NextHeap ==
  \/ \E v \in HeapItems : Push(v)
  \/ Pop

SpecHeap == Init /\ [][NextHeap]_vars

\* ---------------------------------------------------------------------
\* App (App.jsx 32-536).  A node is its id and containerId, an edge its
\* id, ends and which of its ports are pinned, a container its id; ids
\* are the numbers of N1, E1, C1.  touched tells that a handler has set
\* nodes, edges or containers, so that the effect 211-213 runs after it.
\* inSync, saveFrom and watched only record what happened: that a diagram
\* with something in it was opened or saved and not changed since, who
\* opened the save dialog, and the story of one guarded action.
\* ---------------------------------------------------------------------
NodeIds(a) == {n.id : n \in a.nodes}
EdgeIdsOf(a) == {e.id : e \in a.edges}

MaxOf(S) == IF S = {} THEN 0 ELSE CHOOSE m \in S : \A k \in S : k <= m

\* 24-30: JSON of a diagram; without nodes or edges it does not load
Data(ns, es, cs) == [valid |-> TRUE, nodes |-> ns, edges |-> es, containers |-> cs]
BadData == [valid |-> FALSE, nodes |-> {}, edges |-> {}, containers |-> {}]

\* 20-22: serializeDiagram
serializeDiagram(a) == Data(a.nodes, a.edges, a.containers)

\* 58-86
loadDiagram(a, d) ==
  [a EXCEPT !.nodes = d.nodes, !.edges = d.edges, !.containers = d.containers,
            !.touched = TRUE, !.inSync = FALSE,
            !.selectedNode = Null, !.selectedEdge = Null, !.selectedContainer = Null,
            !.connectingFrom = Null, !.creatingContainer = FALSE,
            !.nextNodeId = MaxOf({n.id : n \in d.nodes}) + 1,
            !.nextEdgeId = MaxOf({e.id : e \in d.edges}) + 1,
            !.nextContainerId = MaxOf(d.containers) + 1]

\* 89-93
selectNode(a, id) ==
  [a EXCEPT !.selectedNode = id, !.selectedEdge = Null, !.selectedContainer = Null]

\* selectEdge that leaves the selected node alone
selectEdgeKeepsNode(a, id) ==
  [a EXCEPT !.selectedEdge = id, !.selectedContainer = Null]

\* 95-99
selectEdge(a, id) ==
  [a EXCEPT !.selectedEdge = id, !.selectedNode = Null, !.selectedContainer = Null]

\* 101-105
selectContainer(a, id) ==
  [a EXCEPT !.selectedContainer = id, !.selectedNode = Null, !.selectedEdge = Null]

\* 107-112
deselectAll(a) ==
  [a EXCEPT !.selectedNode = Null, !.selectedEdge = Null, !.selectedContainer = Null,
            !.connectingFrom = Null]

\* 114-131
addNode(a) ==
  selectNode([a EXCEPT !.nodes = @ \cup {[id |-> a.nextNodeId, containerId |-> Null]},
                       !.touched = TRUE, !.inSync = FALSE,
                       !.nextNodeId = @ + 1],
             a.nextNodeId)

\* 133-135 with updates = {containerId}
updateNode(a, id, containerId) ==
  [a EXCEPT !.nodes = {IF n.id = id THEN [id |-> id, containerId |-> containerId] ELSE n : n \in @},
            !.touched = TRUE, !.inSync = FALSE]

\* 133-135 with updates that leave id and containerId alone (x, y, size, label)
touchNodes(a) ==
  [a EXCEPT !.touched = TRUE, !.inSync = FALSE]

\* 137-141
deleteNode(a, id) ==
  [a EXCEPT !.nodes = {n \in @ : n.id # id},
            !.edges = {e \in @ : e.from # id /\ e.to # id},
            !.touched = TRUE, !.inSync = FALSE,
            !.selectedNode = Null]

\* 143-148
addEdge(a, from, to) ==
  IF from = to THEN a
  ELSE selectEdge([a EXCEPT !.edges = @ \cup {[id |-> a.nextEdgeId, from |-> from, to |-> to,
                                                fromPinned |-> FALSE, toPinned |-> FALSE]},
                            !.touched = TRUE, !.inSync = FALSE,
                            !.nextEdgeId = @ + 1],
                  a.nextEdgeId)

\* 150-152 with updates = {fromPort} or {toPort}
updateEdge(a, id, which) ==
  [a EXCEPT !.edges = {IF e.id # id THEN e
                       ELSE IF which = "from"
                         THEN [id |-> e.id, from |-> e.from, to |-> e.to,
                               fromPinned |-> TRUE, toPinned |-> e.toPinned]
                         ELSE [id |-> e.id, from |-> e.from, to |-> e.to,
                               fromPinned |-> e.fromPinned, toPinned |-> TRUE] : e \in @},
            !.touched = TRUE, !.inSync = FALSE]

\* 154-157
deleteEdge(a, id) ==
  [a EXCEPT !.edges = {e \in @ : e.id # id}, !.touched = TRUE, !.inSync = FALSE, !.selectedEdge = Null]

\* 160-175
addContainer(a) ==
  selectContainer([a EXCEPT !.containers = @ \cup {a.nextContainerId},
                            !.touched = TRUE, !.inSync = FALSE,
                            !.nextContainerId = @ + 1],
                  a.nextContainerId)

\* 177-179
touchContainers(a) ==
  [a EXCEPT !.touched = TRUE, !.inSync = FALSE]

\* 181-186
deleteContainer(a, id) ==
  [a EXCEPT !.nodes = {IF n.containerId = id THEN [id |-> n.id, containerId |-> Null] ELSE n : n \in @},
            !.containers = @ \ {id},
            !.touched = TRUE, !.inSync = FALSE,
            !.selectedContainer = Null]

\* 188-202
clearAll(a) ==
  [a EXCEPT !.nodes = {}, !.edges = {}, !.containers = {},
            !.touched = TRUE, !.inSync = FALSE,
            !.selectedNode = Null, !.selectedEdge = Null, !.selectedContainer = Null,
            !.connectingFrom = Null, !.creatingContainer = FALSE,
            !.diagramName = "", !.dirty = FALSE,
            !.nextNodeId = 1, !.nextEdgeId = 1, !.nextContainerId = 1]

\* 205: the start-connect listener, and onStartConnect (522)
startConnect(a, id) == [a EXCEPT !.connectingFrom = id]

\* 523-528
onCompleteConnect(a, toId) ==
  IF a.connectingFrom # Null
    THEN [addEdge(a, a.connectingFrom, toId) EXCEPT !.connectingFrom = Null]
    ELSE a

\* 211-213: the effect on [nodes, edges, containers], run after the
\* render that follows a handler which has set one of them
DirtyEffect(a) ==
  [a EXCEPT !.dirty = IF a.touched /\ (a.nodes # {} \/ a.edges # {} \/ a.containers # {})
                        THEN TRUE ELSE @,
            !.touched = FALSE]

\* localStorage (12-18): the saved diagram of a name, the names saved
SavedNames(a) == {r.name : r \in a.saved}
SavedData(a, name) == (CHOOSE r \in a.saved : r.name = name).data
SetSaved(a, name) ==
  {r \in a.saved : r.name # name} \cup {[name |-> name, data |-> serializeDiagram(a)]}

\* the actions guardUnsaved is given: clearAll (406), doOpen of
\* handleOpenSaved (298-306), doOpen of handleFileOpen (339-348)
ClearAllAction == [kind |-> "clearAll", name |-> "", data |-> BadData, watch |-> FALSE]
OpenSavedAction(name) == [kind |-> "open", name |-> name, data |-> BadData, watch |-> FALSE]
OpenFileAction(name, data) == [kind |-> "file", name |-> name, data |-> data, watch |-> FALSE]

\* the body of a guarded action
RunBody(a, act) ==
  CASE act.kind = "clearAll" -> clearAll(a)
    [] act.kind = "open" ->
         [(IF act.name \in SavedNames(a)
             THEN [loadDiagram(a, SavedData(a, act.name)) EXCEPT
                     !.diagramName = act.name, !.dirty = FALSE,
                     !.inSync = SavedData(a, act.name).nodes # {}]
             ELSE a) EXCEPT !.showOpenDialog = FALSE]
    [] act.kind = "file" ->
         IF act.data.valid
           THEN [loadDiagram(a, act.data) EXCEPT !.diagramName = act.name, !.dirty = FALSE,
                                                  !.inSync = act.data.nodes # {}]
           ELSE a

\* the watched action is told what happened to it
Told(a, act, what) ==
  IF ~act.watch THEN a
  ELSE [a EXCEPT !.watched =
          <<[dirty |-> @[1].dirty,
             immediate |-> @[1].immediate,
             chosen |-> @[1].chosen \/ what = "chosen",
             cancelled |-> @[1].cancelled \/ what = "cancelled",
             runs |-> @[1].runs + (IF what = "run" THEN 1 ELSE 0),
             ranAfterCancel |-> @[1].ranAfterCancel \/ (what = "run" /\ @[1].cancelled),
             ranUnchosen |-> @[1].ranUnchosen \/ (what = "run" /\ ~@[1].chosen)]>>]

Run(a, act) == RunBody(Told(a, act, "run"), act)

\* 253-254, 266-267, 290-293: pendingActionRef.current?.(); pendingActionRef.current = null
RunPending(a) ==
  IF a.pendingAction = <<>> THEN a
  ELSE [Run(a, a.pendingAction[1]) EXCEPT !.pendingAction = <<>>]

\* 227-235: guardUnsaved as the render that made it saw dirty; watch
\* makes this action the watched one
guardUnsaved(a, act, dirty, watch) ==
  LET w == [kind |-> act.kind, name |-> act.name, data |-> act.data, watch |-> watch]
      b == IF watch
             THEN [a EXCEPT !.watched = <<[dirty |-> a.dirty, immediate |-> ~dirty,
                                            chosen |-> FALSE, cancelled |-> FALSE, runs |-> 0,
                                            ranAfterCancel |-> FALSE, ranUnchosen |-> FALSE]>>]
             ELSE a
  IN IF dirty
       THEN [b EXCEPT !.pendingAction = <<w>>, !.showUnsavedWarning = TRUE]
       ELSE Run(b, w)

\* 237-247
quickSave(a) ==
  IF a.diagramName = "" THEN a
  ELSE [a EXCEPT !.saved = SetSaved(a, a.diagramName), !.dirty = FALSE,
                 !.inSync = a.nodes # {}]

\* 249-261
handleUnsavedSave(a) ==
  LET b == IF a.pendingAction = <<>> THEN a ELSE Told(a, a.pendingAction[1], "chosen")
      c == [b EXCEPT !.showUnsavedWarning = FALSE]
  IN IF c.diagramName # ""
       THEN RunPending(quickSave(c))
       ELSE [c EXCEPT !.saveName = "", !.showSaveDialog = TRUE, !.saveFrom = "warning"]

\* 263-268
handleUnsavedDiscard(a) ==
  LET b == IF a.pendingAction = <<>> THEN a ELSE Told(a, a.pendingAction[1], "chosen")
  IN RunPending([b EXCEPT !.showUnsavedWarning = FALSE, !.dirty = FALSE])

\* 270-273
handleUnsavedCancel(a) ==
  LET b == IF a.pendingAction = <<>> THEN a ELSE Told(a, a.pendingAction[1], "cancelled")
  IN [b EXCEPT !.showUnsavedWarning = FALSE, !.pendingAction = <<>>]

\* 276-294
handleSave(a) ==
  IF a.saveName = "" THEN a
  ELSE LET b == [a EXCEPT !.saved = SetSaved(a, a.saveName),
                          !.diagramName = a.saveName,
                          !.dirty = FALSE,
                          !.inSync = a.nodes # {},
                          !.showSaveDialog = FALSE,
                          !.saveName = "",
                          !.saveFrom = "none"]
       IN RunPending(b)

\* 297-308
handleOpenSaved(a, name, watch) == guardUnsaved(a, OpenSavedAction(name), a.dirty, watch)

\* 310-317; the dialog is shown again by the animation frame
handleDeleteSaved(a, name) ==
  [a EXCEPT !.saved = {r \in @ : r.name # name}, !.showOpenDialog = TRUE]

\* 382-386: the header's Save button
HeaderSave(a) ==
  [a EXCEPT !.saveName = a.diagramName, !.showSaveDialog = TRUE, !.saveFrom = "header"]

\* 410, 422, 428: the save dialog dismissed by its overlay, Escape or Cancel
DismissSave(a) == [a EXCEPT !.showSaveDialog = FALSE, !.saveFrom = "none"]

\* the dialogs lie over the page (409-410, 434-435, 449-450)
NoDialog(a) == ~a.showSaveDialog /\ ~a.showOpenDialog /\ ~a.showUnsavedWarning

\* ---------------------------------------------------------------------
\* Saving, opening and clearing under the unsaved-changes guard: the
\* header, the three dialogs and the file reader, with nodes added and
\* deleted in between
\* ---------------------------------------------------------------------
MaxGuardNodeId == 1
MaxReads == 1

TypedNames == {"", "a"}
FileData == {Data({[id |-> 1, containerId |-> Null]}, {}, {}), BadData}

\* what an event of App leaves alone
OnlyApp ==
  UNCHANGED <<nodes, edges, isDragging, pc, assignments, bbox, usageGrid, sorted,
              routes, cur, grid, search, via, gridPaths, blocked, order, prev, given, snap,
              heap, canvas, panel>>

\* a handler of App, the render after it and the effects of that render
Handle(a) == app' = DirtyEffect(a) /\ OnlyApp

\* DiagramCanvas.jsx 176-183: a double click on the canvas
DoubleClickCanvas ==
  /\ NoDialog(app)
  /\ ~app.creatingContainer
  /\ app.nextNodeId <= MaxGuardNodeId
  /\ Handle(addNode(app))

\* 515: Delete in the toolbar of the selected node
ClickDeleteNode ==
  /\ NoDialog(app)
  /\ app.selectedNode # Null
  /\ Handle(deleteNode(app, app.selectedNode))

\* 382-386
ClickSave == NoDialog(app) /\ Handle(HeaderSave(app))

\* 421
TypeSaveName(name) ==
  /\ app.showSaveDialog /\ ~app.showUnsavedWarning
  /\ name # app.saveName
  /\ Handle([app EXCEPT !.saveName = name])

\* 422 (Enter), 427
ClickSaveInDialog ==
  /\ app.showSaveDialog /\ ~app.showUnsavedWarning
  /\ Handle(handleSave(app))

\* 410, 422 (Escape), 428
ClickDismissSave ==
  /\ app.showSaveDialog /\ ~app.showUnsavedWarning
  /\ Handle(DismissSave(app))

\* 387
ClickOpen == NoDialog(app) /\ Handle([app EXCEPT !.showOpenDialog = TRUE])

\* 434, 476
ClickCloseOpen ==
  /\ app.showOpenDialog /\ ~app.showUnsavedWarning
  /\ Handle([app EXCEPT !.showOpenDialog = FALSE])

\* 457
ClickOpenSaved(name, watch) ==
  /\ app.showOpenDialog /\ ~app.showUnsavedWarning
  /\ name \in SavedNames(app)
  /\ watch => app.watched = <<>>
  /\ Handle(handleOpenSaved(app, name, watch))

\* 465
ClickDeleteSaved(name) ==
  /\ app.showOpenDialog /\ ~app.showUnsavedWarning
  /\ name \in SavedNames(app)
  /\ Handle(handleDeleteSaved(app, name))

\* 406
ClickClearAll(watch) ==
  /\ NoDialog(app)
  /\ watch => app.watched = <<>>
  /\ Handle(guardUnsaved(app, ClearAllAction, app.dirty, watch))

\* 441-443
ClickUnsavedSave == app.showUnsavedWarning /\ Handle(handleUnsavedSave(app))
ClickUnsavedDiscard == app.showUnsavedWarning /\ Handle(handleUnsavedDiscard(app))
ClickUnsavedCancel == app.showUnsavedWarning /\ Handle(handleUnsavedCancel(app))

\* 331-353 up to readAsText: a file is chosen; onload will call the
\* guardUnsaved of this render, which has this render's dirty
ChooseFile(data) ==
  /\ NoDialog(app)
  /\ Cardinality(app.reading) < MaxReads
  /\ Handle([app EXCEPT !.reading = @ \cup {[name |-> "f", data |-> data, dirty |-> app.dirty]}])

\* 336-350: reader.onload
FileRead(r, watch) ==
  /\ r \in app.reading
  /\ watch => app.watched = <<>>
  /\ Handle(guardUnsaved([app EXCEPT !.reading = @ \ {r}], OpenFileAction(r.name, r.data),
                         r.dirty, watch))

NextGuard ==
  \/ DoubleClickCanvas
  \/ ClickDeleteNode
  \/ ClickSave
  \/ \E name \in TypedNames : TypeSaveName(name)
  \/ ClickSaveInDialog
  \/ ClickDismissSave
  \/ ClickOpen
  \/ ClickCloseOpen
  \/ \E name \in TypedNames, watch \in BOOLEAN : ClickOpenSaved(name, watch)
  \/ \E name \in TypedNames : ClickDeleteSaved(name)
  \/ \E watch \in BOOLEAN : ClickClearAll(watch)
  \/ ClickUnsavedSave
  \/ ClickUnsavedDiscard
  \/ ClickUnsavedCancel
  \/ \E data \in FileData : ChooseFile(data)
  \/ \E r \in app.reading, watch \in BOOLEAN : FileRead(r, watch)

SpecGuard == Init /\ [][NextGuard]_vars

\* ---------------------------------------------------------------------
\* The editor: the canvas (DiagramCanvas.jsx 59-862) and the toolbar under
\* the mouse, in any order of events.  Positions are left out: where the
\* pointer is shows in what an event hits.
\* ---------------------------------------------------------------------
MaxNodeId == 2
MaxEdgeId == 1
MaxContainerId == 1

\* a file with two connected nodes, one of them in a container
SampleData ==
  Data({[id |-> 1, containerId |-> 1], [id |-> 2, containerId |-> Null]},
       {[id |-> 1, from |-> 1, to |-> 2, fromPinned |-> FALSE, toPinned |-> FALSE]},
       {1})

\* what an event of the editor leaves alone
OnlyEditor ==
  UNCHANGED <<nodes, edges, isDragging, pc, assignments, bbox, usageGrid, sorted,
              routes, cur, grid, search, via, gridPaths, blocked, order, prev, given, snap,
              heap, panel>>

\* a handler of the canvas with what it asks of App, the render after it
\* and the effects of that render
Event(a, c) == app' = DirtyEffect(a) /\ canvas' = c /\ OnlyEditor

\* 93: the flag the next render passes to routeAllEdges
IsDraggingFlag(c) == c.dragging # Null

\* 139
isConnecting(a) == a.connectingFrom # Null

\* Toolbar.jsx 1201-1204 skips an edge without its two nodes: it has no route
Routed(a) == {e \in a.edges : e.from \in NodeIds(a) /\ e.to \in NodeIds(a)}

\* 141-174: a mouse-down on the background, with the middle button or
\* Alt (pan) or without, near the route of an edge (hit) or of none
CanvasMouseDown(pan, hit) ==
  /\ NoDialog(app)
  /\ hit # Null => hit \in {e.id : e \in Routed(app)} /\ ~pan /\ ~app.creatingContainer
  /\ IF pan THEN Event(app, [canvas EXCEPT !.isPanning = TRUE])
     ELSE IF app.creatingContainer
       THEN Event(app, [canvas EXCEPT !.containerDragStart = TRUE, !.containerDragCurrent = TRUE])
     ELSE IF hit # Null THEN Event(selectEdge(app, hit), canvas)
     ELSE IF isConnecting(app)
       THEN Event(deselectAll(app), [canvas EXCEPT !.dragConnecting = FALSE])
     ELSE Event(deselectAll(app), canvas)

\* 176-183
CanvasDoubleClick ==
  /\ NoDialog(app)
  /\ ~app.creatingContainer
  /\ app.nextNodeId <= MaxNodeId
  /\ Event(addNode(app), canvas)

\* 185-197
NodeMouseDown(id) ==
  /\ NoDialog(app)
  /\ id \in NodeIds(app)
  /\ IF isConnecting(app)
       THEN /\ app.connectingFrom # id => app.nextEdgeId <= MaxEdgeId
            /\ Event(IF app.connectingFrom # id THEN onCompleteConnect(app, id) ELSE app,
                     [canvas EXCEPT !.dragConnecting = FALSE])
       ELSE Event(selectNode(app, id), [canvas EXCEPT !.dragging = id])

\* 199-208; the ports show on the node under the pointer (612, 744)
PortMouseDown(id) ==
  /\ NoDialog(app)
  /\ id \in NodeIds(app)
  /\ ~isConnecting(app)
  /\ Event(startConnect(app, id), [canvas EXCEPT !.dragConnecting = TRUE])

\* 212-220
ContainerMouseDown(id) ==
  /\ NoDialog(app)
  /\ id \in app.containers
  /\ IF app.creatingContainer THEN Event(app, canvas)
     ELSE Event(selectContainer(app, id), [canvas EXCEPT !.draggingContainer = id])

\* 222-228; the handles show on the selected container (435-436, 766)
ResizeMouseDown ==
  /\ NoDialog(app)
  /\ app.selectedContainer \in app.containers
  /\ Event(app, [canvas EXCEPT !.resizingContainer = app.selectedContainer])

\* 232-236; the handles show on the selected edge if it has a route (569)
EndpointMouseDown(which) ==
  /\ NoDialog(app)
  /\ app.selectedEdge \in {e.id : e \in Routed(app)}
  /\ Event(app, [canvas EXCEPT !.draggingEndpoint = <<[edgeId |-> app.selectedEdge, which |-> which]>>,
                               !.endpointPreview = FALSE])

\* 238-324
MouseMove ==
  /\ NoDialog(app)
  /\ IF canvas.isPanning THEN Event(app, canvas)
     ELSE IF canvas.containerDragStart /\ app.creatingContainer
       THEN Event(app, [canvas EXCEPT !.containerDragCurrent = TRUE])
     ELSE IF canvas.resizingContainer # Null THEN Event(touchContainers(app), canvas)
     ELSE IF canvas.draggingContainer # Null
       THEN Event(IF canvas.draggingContainer \in app.containers
                    THEN touchContainers(app) ELSE app, canvas)
     ELSE IF canvas.draggingEndpoint # <<>>
       THEN Event(app,
                  [canvas EXCEPT !.endpointPreview =
                     @ \/ \E e \in app.edges :
                            /\ e.id = canvas.draggingEndpoint[1].edgeId
                            /\ (IF canvas.draggingEndpoint[1].which = "from" THEN e.from ELSE e.to)
                                 \in NodeIds(app)])
     ELSE Event(IF canvas.dragging # Null THEN touchNodes(app) ELSE app, canvas)

\* 389-405: the end of a node drag, the centre of the node lying in the
\* container into (or in none, Null)
NodeDragEnd(a, c, into) ==
  IF c.dragging # Null /\ \E n \in a.nodes : n.id = c.dragging /\ n.containerId # into
    THEN updateNode(a, c.dragging, into)
    ELSE a

\* 328, 343, 350, 356, 368: the branches of handleMouseUp that return early
MouseUpCreates == canvas.containerDragStart /\ canvas.containerDragCurrent /\ app.creatingContainer

MouseUpReturnsEarly ==
  \/ MouseUpCreates
  \/ canvas.resizingContainer # Null
  \/ canvas.draggingContainer # Null
  \/ canvas.draggingEndpoint # <<>>

\* 374, 389: the branches that look at what lies under the pointer
MouseUpConnects == ~MouseUpReturnsEarly /\ canvas.dragConnecting /\ isConnecting(app)

MouseUpEndsDrag == ~MouseUpReturnsEarly /\ canvas.dragging # Null

\* 326-412: a mouse-up anywhere; big tells that the rectangle drawn is at
\* least 30 by 30, target is the node under the pointer, into the
\* container around the centre of the dragged node
MouseUp(big, target, into) ==
  /\ target # Null => target \in NodeIds(app) /\ MouseUpConnects
  /\ into # Null => into \in app.containers /\ MouseUpEndsDrag
  /\ big => MouseUpCreates
  /\ IF MouseUpCreates
       THEN /\ big => app.nextContainerId <= MaxContainerId
            /\ Event([(IF big THEN addContainer(app) ELSE app) EXCEPT !.creatingContainer = FALSE],
                     [canvas EXCEPT !.containerDragStart = FALSE, !.containerDragCurrent = FALSE])
     ELSE IF canvas.resizingContainer # Null
       THEN Event(app, [canvas EXCEPT !.resizingContainer = Null])
     ELSE IF canvas.draggingContainer # Null
       THEN Event(app, [canvas EXCEPT !.draggingContainer = Null])
     ELSE IF canvas.draggingEndpoint # <<>>
       THEN Event(IF canvas.endpointPreview
                    THEN updateEdge(app, canvas.draggingEndpoint[1].edgeId,
                                    canvas.draggingEndpoint[1].which)
                    ELSE app,
                  [canvas EXCEPT !.draggingEndpoint = <<>>, !.endpointPreview = FALSE])
     ELSE LET connects == canvas.dragConnecting /\ isConnecting(app)
              joins == connects /\ target # Null /\ target # app.connectingFrom
              a1 == IF ~connects THEN app
                    ELSE IF joins THEN onCompleteConnect(app, target)
                    ELSE deselectAll(app)
          IN /\ joins => app.nextEdgeId <= MaxEdgeId
             /\ Event(NodeDragEnd(a1, canvas, into),
                      [canvas EXCEPT !.dragConnecting = IF connects THEN FALSE ELSE @,
                                     !.dragging = Null, !.isPanning = FALSE])

\* 118-128: Escape
PressEscape ==
  /\ app.creatingContainer
  /\ Event([app EXCEPT !.creatingContainer = FALSE],
           [canvas EXCEPT !.containerDragStart = FALSE, !.containerDragCurrent = FALSE])

\* DiagramCanvas.jsx 1147-1153: Connect From in the toolbar of the selected node
ClickConnectFrom ==
  /\ NoDialog(app)
  /\ app.selectedNode \in NodeIds(app)
  /\ Event(startConnect(app, app.selectedNode), canvas)

\* DiagramCanvas.jsx 1035, App.jsx 497: Cancel in the toolbar while connecting
ClickCancelConnect ==
  /\ NoDialog(app)
  /\ isConnecting(app)
  /\ Event([app EXCEPT !.connectingFrom = Null], canvas)

\* App.jsx 499
ClickToggleContainer ==
  /\ NoDialog(app)
  /\ Event([app EXCEPT !.creatingContainer = ~@], canvas)

\* App.jsx 489-494 and DiagramCanvas.jsx 1154, 1195: Delete in the toolbar
\* of what is selected
ClickDelete ==
  /\ NoDialog(app)
  /\ \/ app.selectedNode \in NodeIds(app) /\ Event(deleteNode(app, app.selectedNode), canvas)
     \/ app.selectedEdge \in EdgeIdsOf(app) /\ Event(deleteEdge(app, app.selectedEdge), canvas)
     \/ /\ app.selectedContainer \in app.containers
        /\ Event(deleteContainer(app, app.selectedContainer), canvas)

\* a guarded action as it runs once the guard lets it (233, 266, 254):
\* Clear All, and a file opened
RunGuarded(act) ==
  /\ NoDialog(app)
  /\ Event(RunBody([app EXCEPT !.dirty = FALSE], act), canvas)

NextEditor ==
  \/ \E pan \in BOOLEAN, hit \in 0..MaxEdgeId : CanvasMouseDown(pan, hit)
  \/ CanvasDoubleClick
  \/ \E id \in 1..MaxNodeId : NodeMouseDown(id)
  \/ \E id \in 1..MaxNodeId : PortMouseDown(id)
  \/ \E id \in 1..MaxContainerId : ContainerMouseDown(id)
  \/ ResizeMouseDown
  \/ \E which \in {"from", "to"} : EndpointMouseDown(which)
  \/ MouseMove
  \/ \E big \in BOOLEAN, target \in 0..MaxNodeId, into \in 0..MaxContainerId :
       MouseUp(big, target, into)
  \/ PressEscape
  \/ ClickConnectFrom
  \/ ClickCancelConnect
  \/ ClickToggleContainer
  \/ ClickDelete
  \/ RunGuarded(ClearAllAction)
  \/ RunGuarded(OpenFileAction("f", SampleData))

SpecEditor == Init /\ [][NextEditor]_vars

\* ---------------------------------------------------------------------
\* MermaidPanel (MermaidPanel.jsx 10-78) under changes of its props and
\* mermaid renders that settle in any order.  A render in flight is
\* [id, code, cancelled]; what the preview element holds is <<>> (empty)
\* or <<[code, ok]>>: the svg of code, or the error message if not ok.
\* ---------------------------------------------------------------------
MaxRenders == 3

\* mermaidGenerator.js 29: '' for a diagram without nodes
Codes == {"", "graph 1", "graph 2"}

\* 73: the preview element exists while the panel shows the preview
previewRef(p) == p.mounted /\ p.showPreview

\* 31: the cleanup of the last effect run
Cleanup(p) == [p EXCEPT !.renders = {[r EXCEPT !.cancelled = TRUE] : r \in @}]

\* 13-30: the effect body after a render of the panel
Effect(p) ==
  IF ~p.showPreview \/ p.code = "" \/ ~previewRef(p) THEN p
  ELSE [p EXCEPT !.renders = @ \cup {[id |-> p.nextRender, code |-> p.code, cancelled |-> FALSE]},
                 !.nextRender = @ + 1]

\* what a panel event leaves alone
OnlyPanel ==
  UNCHANGED <<nodes, edges, isDragging, pc, assignments, bbox, usageGrid, sorted,
              routes, cur, grid, search, via, gridPaths, blocked, order, prev, given, snap,
              heap, app, canvas>>

\* App.jsx 356, 531: the diagram changes and the panel gets another code
SetCode(c) ==
  /\ panel.mounted
  /\ c # panel.code
  /\ c # "" /\ panel.showPreview => panel.nextRender <= MaxRenders
  /\ panel' = Effect([Cleanup(panel) EXCEPT !.code = c])
  /\ OnlyPanel

\* App.jsx 398-403: Show Preview / Hide Preview; 70-75: the preview
\* element is made anew when shown
TogglePreview ==
  /\ panel.mounted
  /\ panel.code # "" /\ ~panel.showPreview => panel.nextRender <= MaxRenders
  /\ panel' = Effect([Cleanup(panel) EXCEPT !.showPreview = ~@, !.preview = <<>>])
  /\ OnlyPanel

\* the panel unmounts
Unmount ==
  /\ panel.mounted
  /\ panel' = [Cleanup(panel) EXCEPT !.mounted = FALSE, !.preview = <<>>]
  /\ OnlyPanel

\* 19-27: mermaid.render of r settles, with the svg (ok) or by throwing
Settle(r, ok) ==
  /\ r \in panel.renders
  /\ LET writes == ~r.cancelled /\ previewRef(panel)
     IN panel' = [panel EXCEPT
                    !.renders = @ \ {r},
                    !.preview = IF writes THEN <<[code |-> r.code, ok |-> ok]>> ELSE @,
                    !.wroteCancelled = @ \/ (writes /\ r.cancelled)]
  /\ OnlyPanel

NextPanel ==
  \/ \E c \in Codes : SetCode(c)
  \/ TogglePreview
  \/ Unmount
  \/ \E r \in panel.renders, ok \in BOOLEAN : Settle(r, ok)

SpecPanel == Init /\ [][NextPanel]_vars

\* ---------------------------------------------------------------------
\* Properties of the returned routes
\* ---------------------------------------------------------------------
\* the edge of the running call with this id
EdgeOf(id) == edges[CHOOSE i \in 1..Len(edges) : edges[i].id = id]

\* the stages behind the route of a routed edge
StagesOf(id) ==
  RouteStages(gridPaths[id], assignments[id].from, assignments[id].to,
              Obstacles(nodes, EdgeOf(id)), bbox)

\* C1: in every route routeAllEdges returns, every two consecutive points
\* share their x coordinate or their y coordinate
C1_AxisAligned ==
  pc = "done" =>
    \A id \in DOMAIN routes :
      \A i \in 1..(Len(routes[id]) - 1) :
        routes[id][i].x = routes[id][i + 1].x \/ routes[id][i].y = routes[id][i + 1].y

\* C2: the first point of every route is the resolved source port, the last
\* point the resolved target port, and so it is after every clean-up stage
C2_EndPointsKept ==
  pc = "done" =>
    \A id \in DOMAIN routes :
      LET a == assignments[id]
          st == StagesOf(id)
      IN /\ routes[id] = Last(st)
         /\ \A k \in 1..Len(st) :
              /\ st[k] # <<>>
              /\ st[k][1] = Pt(a.from.x, a.from.y)
              /\ Last(st[k]) = Pt(a.to.x, a.to.y)

\* a returned route found by astar and one built by fallbackRoute, each
\* changed by dedup, by rerouteAroundObstacles or by ensurePerpendicularEntry
C2_Witness ==
  /\ pc = "done"
  /\ \A how \in {"astar", "fallback"} :
       \E id \in DOMAIN routes :
         LET st == StagesOf(id)
             n == Len(st)
         IN /\ via[id] = how
            /\ st[1] # st[2]
            /\ st[n - 2] # st[n - 1] \/ st[n - 1] # st[n]

\* C3: the first segment of every returned route is perpendicular to the
\* side of its source port, the last segment to the side of its target port
C3_PerpendicularEnds ==
  pc = "done" =>
    \A id \in DOMAIN routes :
      LET r == routes[id]
          a == assignments[id]
          n == Len(r)
      IN n >= 2 =>
           /\ IF IsHoriz(a.from) THEN r[1].y = r[2].y ELSE r[1].x = r[2].x
           /\ IF IsHoriz(a.to) THEN r[n - 1].y = r[n].y ELSE r[n - 1].x = r[n].x

\* C4: no segment of a returned route intersects a node other than the
\* edge's own two: not even the node's bare rectangle, which every padded
\* rectangle contains
C4_ClearOfObstacles ==
  pc = "done" =>
    \A id \in DOMAIN routes :
      LET r == routes[id]
          obstacles == Obstacles(nodes, EdgeOf(id))
      IN \A i \in 1..(Len(r) - 1), k \in 1..Len(obstacles) :
           ~segmentIntersectsRect(r[i].x, r[i].y, r[i + 1].x, r[i + 1].y, obstacles[k], 0)

\* C5: an edge whose search ended with an empty heap has a route in the
\* returned map, and it is the route fallbackRoute builds for its ports
C5_FallbackRoute ==
  pc = "done" =>
    \A id \in DOMAIN via :
      via[id] = "fallback" =>
        /\ id \in DOMAIN routes
        /\ routes[id] # <<>>
        /\ routes[id] = fallbackRoute(assignments[id].from, assignments[id].to,
                                      Obstacles(nodes, EdgeOf(id)))

\* a call returned in which astar failed for an edge between two nodes of
\* the diagram
C5_Witness ==
  /\ pc = "done"
  /\ \E i \in 1..Len(edges) :
       /\ HasNode(nodes, edges[i].from)
       /\ HasNode(nodes, edges[i].to)
       /\ edges[i].id \in DOMAIN via
       /\ via[edges[i].id] = "fallback"
       /\ Len(routes[edges[i].id]) >= 2

\* C13: for A at (100,100) and B at (400,100), both 140x50, and the single
\* unpinned edge A -> B, the returned route is exactly A's right-centre
\* port (240,125) followed by B's left-centre port (400,125)
C13_StraightLineScenario ==
  (/\ pc = "done"
   /\ nodes = <<Node("A", 100, 100, 140, 50), Node("B", 400, 100, 140, 50)>>
   /\ edges = <<Edge("e1", "A", "B", NoPort, NoPort)>>)
    => /\ DOMAIN routes = {"e1"}
       /\ routes["e1"] = <<Pt(Px(240), Px(125)), Pt(Px(400), Px(125))>>
       /\ assignments["e1"].from.side = "right"
       /\ assignments["e1"].to.side = "left"

\* the call on that diagram has returned, its route found by astar and
\* shortened by the clean-up
C13_Witness ==
  /\ pc = "done"
  /\ nodes = <<Node("A", 100, 100, 140, 50), Node("B", 400, 100, 140, 50)>>
  /\ edges = <<Edge("e1", "A", "B", NoPort, NoPort)>>
  /\ "e1" \in DOMAIN routes
  /\ via["e1"] = "astar"
  /\ Len(StagesOf("e1")[1]) > 2

\* C14: a returned route fed back through dedup, smoothKinks,
\* enforceOrthogonal, rerouteAroundObstacles and ensurePerpendicularEntry
\* with the same ports and obstacles comes out as the same point sequence
C14_CleanUpIdempotent ==
  pc = "done" =>
    \A id \in DOMAIN routes :
      CleanUp(routes[id], assignments[id].from, assignments[id].to,
              Obstacles(nodes, EdgeOf(id))) = routes[id]

\* C15: the route fallbackRoute returns is what the clean-up chain of the
\* A* branch (dedup, smoothKinks, enforceOrthogonal, rerouteAroundObstacles,
\* ensurePerpendicularEntry) makes of the raw L- or Z-shaped polyline
\* between the two ports
C15_FallbackSameCleanUp ==
  pc = "done" =>
    \A id \in DOMAIN routes :
      via[id] = "fallback" =>
        LET a == assignments[id]
            obstacles == Obstacles(nodes, EdgeOf(id))
        IN routes[id] = CleanUp(FallbackStages(a.from, a.to, obstacles)[1], a.from, a.to, obstacles)

\* the Manhattan distance between the two resolved ports of a routed edge
PortDist(id) ==
  Abs(assignments[id].from.x - assignments[id].to.x)
    + Abs(assignments[id].from.y - assignments[id].to.y)

\* C17: the edges are searched in non-decreasing order of the Manhattan
\* distance between their resolved ports, whatever the order of the list
C17_ShortestFirst ==
  \A i, j \in 1..Len(order) : i < j => PortDist(order[i]) <= PortDist(order[j])

\* three edges of three different lengths were searched, the list naming
\* the longest first and the shortest last
C17_Witness ==
  /\ pc = "done"
  /\ Len(edges) = 3
  /\ Len(order) = 3
  /\ order = <<edges[3].id, edges[2].id, edges[1].id>>
  /\ PortDist(order[1]) < PortDist(order[2])
  /\ PortDist(order[2]) < PortDist(order[3])

\* the grid cell a world point lies in, by the rounding of 1219-1222
CellOf(x, y) ==
  [gx |-> RoundDiv(x - bbox.minX, Px(CELL)), gy |-> RoundDiv(y - bbox.minY, Px(CELL))]

\* in-bounds cells a segment certainly touches: for a segment along an axis
\* the cells of all its points; for any other segment the cells of its
\* two ends and of the seven points that divide it into eight equal parts
TouchedCells(p, q) ==
  LET gw == GridW(bbox)
      gh == GridH(bbox)
      a == CellOf(p.x, p.y)
      b == CellOf(q.x, q.y)
      cells == IF p.x = q.x THEN {[gx |-> a.gx, gy |-> y] : y \in Min(a.gy, b.gy)..Max(a.gy, b.gy)}
               ELSE IF p.y = q.y THEN {[gx |-> x, gy |-> a.gy] : x \in Min(a.gx, b.gx)..Max(a.gx, b.gx)}
               ELSE {CellOf(p.x + ((q.x - p.x) * k) \div 8, p.y + ((q.y - p.y) * k) \div 8) : k \in 0..8}
  IN {c.gy * gw + c.gx : c \in {d \in cells : d.gx >= 0 /\ d.gx < gw /\ d.gy >= 0 /\ d.gy < gh}}

\* a step inside a call leaves every marked cell marked
NoCellCleared ==
  pc \in {"loop", "search"} =>
    \A c \in DOMAIN usageGrid : usageGrid[c] = 1 => usageGrid'[c] = 1

\* C18: with isDragging = false, when the search for an edge starts every
\* in-bounds cell touched by a segment of the final route of an edge
\* routed earlier in the call is marked in the usage grid; and during a
\* call no marked cell is cleared
C18_UsageHoldsEarlierRoutes ==
  /\ [](  (~isDragging /\ pc = "search") =>
            \A k \in 1..Len(order) :
              \A i \in 1..(Len(routes[order[k]]) - 1) :
                \A c \in TouchedCells(routes[order[k]][i], routes[order[k]][i + 1]) :
                  usageGrid[c] = 1)
  /\ [][NoCellCleared]_vars

\* ---------------------------------------------------------------------
\* Properties of astar
\* ---------------------------------------------------------------------
\* astar is about to return a path: it has popped the goal cell
Returning == pc = "search" /\ search.heap # <<>> /\ AtGoal(search, GridH(bbox), cur[1].ex, cur[1].ey)

\* the key of the popped entry, and the path astar returns from it
GoalKey == stateKey(HeapTop(search.heap).gx, HeapTop(search.heap).gy, HeapTop(search.heap).dir, GridH(bbox))
ReturnedPath == Reconstruct(search.cameFrom, GoalKey, GridH(bbox))

\* the state the parent links lead back to
RECURSIVE Root(_, _)
Root(cameFrom, k) == IF k \in DOMAIN cameFrom THEN Root(cameFrom, cameFrom[k]) ELSE k

\* C19: a path astar returns starts at the start cell, ends at the goal
\* cell, moves between orthogonally adjacent cells, stays inside the grid
\* and enters no occupied cell; the parent links lead back to the start
\* state
C19_PathWellFormed ==
  Returning =>
    LET path == ReturnedPath
        s == StubCell(cur[1].from, bbox)
        gw == GridW(bbox)
        gh == GridH(bbox)
    IN /\ path[1] = s
       /\ Last(path) = [gx |-> cur[1].ex, gy |-> cur[1].ey]
       /\ \A i \in 1..(Len(path) - 1) :
            Abs(path[i + 1].gx - path[i].gx) + Abs(path[i + 1].gy - path[i].gy) = 1
       /\ \A i \in 1..Len(path) :
            /\ path[i].gx >= 0 /\ path[i].gx < gw /\ path[i].gy >= 0 /\ path[i].gy < gh
            /\ i > 1 => grid[path[i].gy * gw + path[i].gx] = 0
       /\ Root(search.cameFrom, GoalKey) = stateKey(s.gx, s.gy, cur[1].from.dir, gh)

\* astar returns a path with a turn, around an occupied cell that lies in
\* the rectangle spanned by the start and the goal cell
C19_Witness ==
  /\ Returning
  /\ \E i \in 2..(Len(ReturnedPath) - 1) :
       /\ ReturnedPath[i - 1].gx # ReturnedPath[i + 1].gx
       /\ ReturnedPath[i - 1].gy # ReturnedPath[i + 1].gy
  /\ \E c \in DOMAIN grid :
       /\ grid[c] # 0
       /\ Min(ReturnedPath[1].gx, cur[1].ex) <= c % GridW(bbox)
       /\ c % GridW(bbox) <= Max(ReturnedPath[1].gx, cur[1].ex)
       /\ Min(ReturnedPath[1].gy, cur[1].ey) <= c \div GridW(bbox)
       /\ c \div GridW(bbox) <= Max(ReturnedPath[1].gy, cur[1].ey)

\* the cells next to cell c that are inside the grid and unoccupied
FreeNeighbours(c) ==
  LET gw == GridW(bbox)
      gh == GridH(bbox)
      x == c % gw
      y == c \div gw
  IN {n \in {(y + DirY(d)) * gw + x + DirX(d) :
               d \in {e \in 0..3 : x + DirX(e) >= 0 /\ x + DirX(e) < gw
                                      /\ y + DirY(e) >= 0 /\ y + DirY(e) < gh}} :
        grid[n] = 0}

\* the cells orthogonal steps through unoccupied cells lead to
RECURSIVE Flood(_, _)
Flood(seen, frontier) ==
  IF frontier = {} THEN seen
  ELSE LET next == UNION {FreeNeighbours(c) : c \in frontier} \ seen
       IN Flood(seen \cup next, next)

\* the goal cell of the running search can be reached from its start cell
GoalReachable ==
  LET s == StubCell(cur[1].from, bbox)
      start == s.gy * GridW(bbox) + s.gx
  IN (cur[1].ey * GridW(bbox) + cur[1].ex) \in Flood({start}, {start})

\* astar is about to return null: the heap is empty
Failing == pc = "search" /\ search.heap = <<>>

\* a turn of astar's loop brings the search nearer its end: it finds a
\* state for the first time or a cheaper way to a known one, making no
\* known state dearer, or else it leaves gScore alone and shortens the
\* heap.  No run of such turns is infinite: the states are finitely many
\* and a cost can fall only finitely often.
Progress(a, b) ==
  \/ /\ a.gScore # b.gScore
     /\ DOMAIN a.gScore \subseteq DOMAIN b.gScore
     /\ \A k \in DOMAIN a.gScore : b.gScore[k] <= a.gScore[k]
  \/ /\ a.gScore = b.gScore
     /\ Len(b.heap) < Len(a.heap)

\* every step that stays inside astar's loop is such a turn
LoopProgresses == (pc = "search" /\ pc' = "search") => Progress(search, search')

\* the steps astar may take from the state p = <<x, y, dir>> (706-714),
\* each with the state it leads to and its cost
StepsFrom(p) ==
  LET gw == GridW(bbox)
      gh == GridH(bbox)
  IN {[s |-> <<p[1] + DirX(d), p[2] + DirY(d), d>>,
       c |-> StepCost(d, p[3], usageGrid[(p[2] + DirY(d)) * gw + p[1] + DirX(d)])] :
        d \in {e \in 0..3 : /\ p[1] + DirX(e) >= 0 /\ p[1] + DirX(e) < gw
                             /\ p[2] + DirY(e) >= 0 /\ p[2] + DirY(e) < gh
                             /\ grid[(p[2] + DirY(e)) * gw + p[1] + DirX(e)] = 0}}

\* the costs a step can have
StepCosts == {StepCost(d, 0, u) : d \in 0..1, u \in 0..1}

\* the states whose cheapest path from the start state costs less than
\* bound: layers[j + 1] holds the states of cost j, for every j < k
RECURSIVE Cheaper(_, _, _, _)
Cheaper(k, bound, layers, seen) ==
  IF k >= bound THEN seen
  ELSE LET reached == UNION {{m.s : m \in {n \in StepsFrom(p) : n.c = c}} :
                               <<c, p>> \in UNION {{<<b, q>> : q \in layers[k - b + 1]} :
                                                      b \in {a \in StepCosts : a <= k}}}
           layer == reached \ seen
       IN Cheaper(k + 1, bound, Append(layers, layer), seen \cup layer)

\* the direction of the step from cell a to the adjacent cell b
DirOf(a, b) == CHOOSE d \in 0..3 : b.gx = a.gx + DirX(d) /\ b.gy = a.gy + DirY(d)

\* what the steps of a path cost, the first one taken from direction dir
RECURSIVE PathCost(_, _, _)
PathCost(path, i, dir) ==
  IF i >= Len(path) THEN 0
  ELSE LET d == DirOf(path[i], path[i + 1])
       IN StepCost(d, dir, usageGrid[path[i + 1].gy * GridW(bbox) + path[i + 1].gx])
            + PathCost(path, i + 1, d)

\* C29: the cost of a path astar returns (1 a step, TURN_COST for a step
\* in another direction than the one before, or than the start direction
\* for the first, CROSS_COST for a step into a used cell) is the least
\* cost of any path from the start state to the goal cell through
\* unoccupied cells of the grid: no state of the goal cell is reached
\* more cheaply.
C29_ReturnedPathCheapest ==
  Returning =>
    LET s == StubCell(cur[1].from, bbox)
        start == <<s.gx, s.gy, cur[1].from.dir>>
        cost == PathCost(ReturnedPath, 1, cur[1].from.dir)
        cheaper == IF cost = 0 THEN {} ELSE Cheaper(1, cost, <<{start}>>, {start})
    IN /\ cost = HeapTop(search.heap).g
       /\ \A p \in cheaper : ~(p[1] = cur[1].ex /\ p[2] = cur[1].ey)

\* astar returns a path that turns and enters a used cell, on a grid with
\* occupied cells
C29_Witness ==
  /\ Returning
  /\ HeapTop(search.heap).g >= Len(ReturnedPath) - 1 + TURN_COST + CROSS_COST
  /\ \E c \in DOMAIN grid : grid[c] # 0

\* ---------------------------------------------------------------------
\* Properties of the port assignment
\* ---------------------------------------------------------------------
FracEq(a, b) == a.n * b.d = b.n * a.d

\* the endpoints of the call's edges whose two nodes exist, as
\* <<index in edges, isFrom>>
LiveEndpoints ==
  {<<i, isFrom>> : i \in {j \in 1..Len(edges) :
                            HasNode(nodes, edges[j].from) /\ HasNode(nodes, edges[j].to)},
                   isFrom \in BOOLEAN}

EpPort(p) == IF p[2] THEN edges[p[1]].fromPort ELSE edges[p[1]].toPort
EpNodeId(p) == IF p[2] THEN edges[p[1]].from ELSE edges[p[1]].to
EpOtherNode(p) == FindNode(nodes, IF p[2] THEN edges[p[1]].to ELSE edges[p[1]].from)
EpEntry(p) == IF p[2] THEN assignments[edges[p[1]].id].from ELSE assignments[edges[p[1]].id].to
EpPinned(p) == EpPort(p).side # "none"
SameGroup(p, q) == EpNodeId(p) = EpNodeId(q) /\ EpEntry(p).side = EpEntry(q).side
\* twice the centre coordinate of the opposite node the side sorts by
EpKey(p) ==
  IF EpEntry(p).side \in {"top", "bottom"} THEN CentreX2(EpOtherNode(p)) ELSE CentreY2(EpOtherNode(p))

\* C7: the unpinned endpoints of one (node, side) group get pairwise
\* distinct offsets, increasing with the centre of the opposite node
\* (centre x on top and bottom sides, centre y on left and right sides),
\* whether or not pinned endpoints share the side
C7_AutoOffsetsOrdered ==
  \A p, q \in LiveEndpoints :
    (p # q /\ ~EpPinned(p) /\ ~EpPinned(q) /\ SameGroup(p, q)) =>
      /\ ~FracEq(EpEntry(p).offset, EpEntry(q).offset)
      /\ EpKey(p) < EpKey(q) => FracLess(EpEntry(p).offset, EpEntry(q).offset)

\* three unpinned endpoints on one side, passed in the opposite of their
\* sort order, next to a pinned endpoint of the same side
C7_Witness ==
  /\ pc = "assigned"
  /\ \E p, q, r, u \in LiveEndpoints :
       /\ Cardinality({p, q, r}) = 3
       /\ ~EpPinned(p) /\ ~EpPinned(q) /\ ~EpPinned(r) /\ EpPinned(u)
       /\ SameGroup(p, q) /\ SameGroup(p, r) /\ SameGroup(p, u)
       /\ EpKey(p) < EpKey(q)
       /\ q[1] < p[1]

\* twice the vector from the centre of the endpoint's node to the centre
\* of the opposite node
EpDx2(p) == CentreX2(EpOtherNode(p)) - CentreX2(FindNode(nodes, EpNodeId(p)))
EpDy2(p) == CentreY2(EpOtherNode(p)) - CentreY2(FindNode(nodes, EpNodeId(p)))

\* C16: an unpinned endpoint is attached to the left or right side when
\* |dx| >= |dy| (right when dx >= 0, which includes dx = 0), otherwise to
\* the top or bottom side, each time the one that faces the centre of the
\* opposite node; a pinned endpoint is attached to its pinned side
C16_SideFacesOtherNode ==
  \A p \in LiveEndpoints :
    LET side == EpEntry(p).side
        dx == EpDx2(p)
        dy == EpDy2(p)
    IN IF EpPinned(p) THEN side = EpPort(p).side
       ELSE /\ (Abs(dx) >= Abs(dy) /\ dx >= 0) => side = "right"
            /\ (Abs(dx) >= Abs(dy) /\ dx < 0) => side = "left"
            /\ (Abs(dx) < Abs(dy) /\ dy > 0) => side = "bottom"
            /\ (Abs(dx) < Abs(dy) /\ dy < 0) => side = "top"

\* an unpinned endpoint with |dx| = |dy|, one whose opposite node has the
\* same centre, and one pinned to another side than the one facing the
\* opposite node
C16_Witness ==
  /\ pc = "assigned"
  /\ \E p, q, r \in LiveEndpoints :
       /\ ~EpPinned(p) /\ EpDx2(p) # 0 /\ Abs(EpDx2(p)) = Abs(EpDy2(p))
       /\ ~EpPinned(q) /\ EpDx2(q) = 0 /\ EpDy2(q) = 0
       /\ EpPinned(r) /\ Abs(EpDx2(r)) >= Abs(EpDy2(r)) /\ EpDx2(r) >= 0
       /\ EpEntry(r).side = "bottom"

\* where the side of a node starts and ends: offset 0 and offset 1
SideStart(n, side) ==
  CASE side = "top" -> Pt(n.x, n.y)
    [] side = "right" -> Pt(n.x + n.width, n.y)
    [] side = "bottom" -> Pt(n.x, n.y + n.height)
    [] side = "left" -> Pt(n.x, n.y)
SideEnd(n, side) ==
  CASE side = "top" -> Pt(n.x + n.width, n.y)
    [] side = "right" -> Pt(n.x + n.width, n.y + n.height)
    [] side = "bottom" -> Pt(n.x + n.width, n.y + n.height)
    [] side = "left" -> Pt(n.x, n.y + n.height)
Lerp(a, b, o) == a + ((b - a) * o.n) \div o.d

\* C8: a pinned endpoint is attached on its stored side at its stored
\* offset, at the point that interpolates linearly along that side
C8_PinnedPortExact ==
  \A p \in LiveEndpoints :
    EpPinned(p) =>
      LET port == EpPort(p)
          entry == EpEntry(p)
          n == FindNode(nodes, EpNodeId(p))
          a == SideStart(n, port.side)
          b == SideEnd(n, port.side)
      IN /\ entry.side = port.side
         /\ FracEq(entry.offset, port.offset)
         /\ entry.x = Lerp(a.x, b.x, port.offset)
         /\ entry.y = Lerp(a.y, b.y, port.offset)

\* two endpoints pinned to the same offset of one side, which cannot both
\* claim the nearest slot, next to an unpinned endpoint of that side
C8_Witness ==
  /\ pc = "assigned"
  /\ \E p, q, r \in LiveEndpoints :
       /\ p # q
       /\ EpPinned(p) /\ EpPinned(q) /\ ~EpPinned(r)
       /\ SameGroup(p, q) /\ SameGroup(p, r)
       /\ FracEq(EpPort(p).offset, EpPort(q).offset)

\* ---------------------------------------------------------------------
\* Properties that compare two calls
\* ---------------------------------------------------------------------
\* the edges of the call that reference a node that is not in the list
StaleIds(ns, es) ==
  {es[i].id : i \in {j \in 1..Len(es) : ~HasNode(ns, es[j].from) \/ ~HasNode(ns, es[j].to)}}

SameMap(f, g) == DOMAIN f = DOMAIN g /\ \A id \in DOMAIN f : f[id] = g[id]

\* the finished call got the nodes and the flag of the call before it
SameDiagram ==
  /\ pc = "done"
  /\ prev # <<>>
  /\ nodes = prev[1].nodes

\* C6: an edge that references a missing node is absent from the returned
\* map, and a call with the same nodes, the same flag and the same edges
\* without the stale ones returns the same route for every other edge
C6_StaleEdgeIgnored ==
  /\ pc = "done" => DOMAIN routes \cap StaleIds(nodes, edges) = {}
  /\ (/\ SameDiagram
      /\ isDragging = prev[1].isDragging
      /\ edges = LiveEdges(prev[1].nodes, prev[1].edges))
       => SameMap(routes, prev[1].routes)

\* a call with a stale edge that precedes two live edges, usage marked,
\* followed by the call without the stale edge
C6_Witness ==
  /\ SameDiagram
  /\ ~isDragging /\ ~prev[1].isDragging
  /\ Len(prev[1].edges) = 3
  /\ prev[1].edges[1].id \in StaleIds(prev[1].nodes, prev[1].edges)
  /\ edges = LiveEdges(prev[1].nodes, prev[1].edges)
  /\ Len(edges) = 2
  /\ DOMAIN routes = {edges[1].id, edges[2].id}

\* the cells the route of an edge runs over
RouteCells(id) == PathCells(routes[id], bbox)

\* C9: with isDragging = true, two calls with the same nodes, the same
\* edges in different orders and the same port assignments return the
\* same route for every edge
C9_OrderIndependentWhileDragging ==
  (/\ SameDiagram
   /\ isDragging /\ prev[1].isDragging
   /\ {edges[i] : i \in 1..Len(edges)} = {prev[1].edges[i] : i \in 1..Len(prev[1].edges)}
   /\ assignments = prev[1].assignments)
    => SameMap(routes, prev[1].routes)

\* two dragging calls that routed the same edges in different orders, two
\* of the routes running over common cells
C9_Witness ==
  /\ SameDiagram
  /\ isDragging /\ prev[1].isDragging
  /\ assignments = prev[1].assignments
  /\ order # prev[1].order
  /\ \E i, j \in 1..Len(order) :
       /\ i < j
       /\ order[i] = prev[1].order[j]
       /\ RouteCells(order[i]) \cap RouteCells(order[j]) # {}

\* C10: while isDragging = true no cell of the usage grid is marked; and a
\* call that differs from the one before only in the flag resolves the same
\* ports, searches every edge on the same occupancy grid in the same order,
\* and post-processes what astar returns in the same way
C10_DraggingLeavesUsageUnmarked ==
  /\ isDragging => \A i \in DOMAIN usageGrid : usageGrid[i] = 0
  /\ (/\ SameDiagram
      /\ edges = prev[1].edges
      /\ isDragging # prev[1].isDragging)
       => /\ assignments = prev[1].assignments
          /\ order = prev[1].order
          /\ SameMap(blocked, prev[1].blocked)
          /\ \A id \in DOMAIN routes :
               /\ routes[id] = Last(StagesOf(id))
               /\ gridPaths[id] = prev[1].gridPaths[id] => routes[id] = prev[1].routes[id]

\* a dragging call after the same call without dragging, in which the
\* marked cells had sent the search of an edge another way
C10_Witness ==
  /\ SameDiagram
  /\ edges = prev[1].edges
  /\ isDragging /\ ~prev[1].isDragging
  /\ \E id \in DOMAIN routes :
       gridPaths[id] # prev[1].gridPaths[id] /\ routes[id] # prev[1].routes[id]

\* C11: a call returns the routes every earlier call with the same nodes,
\* edges and isDragging returned, whatever calls were made in between, and
\* at its return the caller's node and edge lists are as they were passed
C11_NoStateBetweenCalls ==
  pc = "done" =>
    /\ nodes = given[1].nodes
    /\ edges = given[1].edges
    /\ \A k \in 1..Len(prev) :
         prev[k].given = given[1] => SameMap(routes, prev[k].routes)

\* the first call made again after a call on the same diagram with the
\* other isDragging value, which returned other routes
C11_Witness ==
  /\ pc = "done"
  /\ Len(prev) = 2
  /\ prev[2].given = given[1]
  /\ prev[1].given.nodes = given[1].nodes
  /\ prev[1].given.isDragging # isDragging
  /\ ~SameMap(routes, prev[1].routes)
  /\ DOMAIN routes # {}

\* ---------------------------------------------------------------------
\* Properties of nearestPerimeterPoint
\* ---------------------------------------------------------------------
\* the length of the side a snap result lies on
SnapSideLength(node, side) == IF side \in {"top", "bottom"} THEN node.width ELSE node.height

\* C12: nearestPerimeterPoint returns one of the four sides and an offset
\* that is a number within [0.1, 0.9]; on a side of length zero the offset
\* is 0.5
C12_SnapOffsetInRange ==
  snap # <<>> =>
    LET r == snap[1].result
    IN /\ r.side \in {"top", "right", "bottom", "left"}
       /\ r.offset.d # 0
       /\ ~FracLess(r.offset, Frac(1, 10))
       /\ ~FracLess(Frac(9, 10), r.offset)
       /\ SnapSideLength(snap[1].node, r.side) = 0 => FracEq(r.offset, Frac(1, 2))

\* the pointer snapped to the top or bottom side of a node without width
C12_Witness ==
  /\ snap # <<>>
  /\ snap[1].node.width = 0
  /\ snap[1].node.height > 0
  /\ snap[1].result.side \in {"top", "bottom"}

\* C20: astar terminates, every turn of its loop bringing it nearer the
\* end; it returns null only when the goal cell cannot be reached from the
\* start cell by orthogonal steps through unoccupied in-bounds cells, and
\* a path only when it can; and whether a path is found for an edge is
\* the same in two calls that differ only in what the usage grid holds
C20_NullIffUnreachable ==
  /\ [](Failing => ~GoalReachable)
  /\ [](Returning => GoalReachable)
  /\ []((/\ SameDiagram
         /\ {edges[i] : i \in 1..Len(edges)} = {prev[1].edges[i] : i \in 1..Len(prev[1].edges)}
         /\ assignments = prev[1].assignments)
          => SameMap(via, prev[1].via))
  /\ [][LoopProgresses]_vars

\* astar returns null while the usage grid holds the route of an earlier
\* edge of the call
C20_Witness ==
  /\ Failing
  /\ order # <<>>
  /\ \E c \in DOMAIN usageGrid : usageGrid[c] = 1

\* C30: the point nearestPerimeterPoint returns is the point of its own
\* side and offset: portToWorld of the returned side and offset on the
\* same node gives the returned x and y.
C30_SnapIsPortToWorld ==
  snap # <<>> =>
    LET r == snap[1].result
        w == portToWorld(snap[1].node, r.side, r.offset)
    IN w.x = r.x /\ w.y = r.y

\* ---------------------------------------------------------------------
\* Properties of MinHeap
\* ---------------------------------------------------------------------
Count(d, e) == Cardinality({i \in DOMAIN d : d[i] = e})

\* C21: after any pushes and pops, a pop on a heap that is not empty returns
\* an element whose f is the smallest of the stored ones and removes that
\* one element only: the size drops by one and all the others stay.
C21_PopReturnsMinimum ==
  heap.ret # <<>> =>
    LET top == heap.ret[1]
        before == heap.ret[2]
    IN /\ \A i \in DOMAIN before : top.f <= before[i].f
       /\ Count(before, top) >= 1
       /\ Len(heap.d) = Len(before) - 1
       /\ \A e \in HeapItems :
            Count(heap.d, e) = Count(before, e) - (IF e = top THEN 1 ELSE 0)

\* a pop from a full heap whose smallest f is held by two different
\* elements and whose root has a larger right than left child
C21_Witness ==
  /\ heap.ret # <<>>
  /\ Len(heap.ret[2]) = MaxHeap
  /\ \E i \in 2..MaxHeap : /\ heap.ret[2][i].f = heap.ret[1].f
                            /\ heap.ret[2][i] # heap.ret[1]
  /\ heap.ret[2][2].f < heap.ret[2][3].f
  /\ heap.d # <<>>

\* ---------------------------------------------------------------------
\* Properties of the unsaved-changes guard
\* ---------------------------------------------------------------------
\* a step of handleSave in a save dialog the header's Save button opened
\* finds no pending action
HeaderSaveRunsNothing ==
  (/\ app.showSaveDialog /\ ~app.showUnsavedWarning
   /\ app.saveFrom = "header"
   /\ app.saveName # ""
   /\ app' = DirtyEffect(handleSave(app)))
    => app.pendingAction = <<>>

\* C24: handleSave runs a pending action only when the save dialog was
\* opened by the unsaved-changes warning: a save started from the header's
\* Save button runs no action.
C24_HeaderSaveRunsNoAction == [][HeaderSaveRunsNothing]_vars

\* C25: an action given to guardUnsaved runs at once only when dirty is
\* false; when dirty is true it does not run before Save or Discard is
\* chosen in the warning; it runs at most once, and never after Cancel.
C25_GuardedActionRuns ==
  app.watched # <<>> =>
    /\ app.watched[1].immediate => ~app.watched[1].dirty
    /\ app.watched[1].dirty => ~app.watched[1].ranUnchosen
    /\ app.watched[1].runs <= 1
    /\ ~app.watched[1].ranAfterCancel

\* C28: after a diagram with something in it has been opened or saved, and
\* until nodes, edges or containers are set again, dirty is false.
C28_CleanAfterOpenOrSave == app.inSync => ~app.dirty

\* ---------------------------------------------------------------------
\* Properties of the editor
\* ---------------------------------------------------------------------
\* a step of handleMouseUp leaves no node drag active; only a mouse-down
\* on a node (196) starts one
MouseUpEndsNodeDrag ==
  (\E big \in BOOLEAN, target \in 0..MaxNodeId, into \in 0..MaxContainerId :
     MouseUp(big, target, into))
    => ~IsDraggingFlag(canvas')

\* C22: after any mouse-up no node drag is active (dragging is null), so
\* that from the next render until the next mouse-down on a node the
\* routes shown are those of routeAllEdges called with isDragging = false.
C22_NoDragAfterMouseUp == [][MouseUpEndsNodeDrag]_vars

\* C23: after any sequence of editor operations (selecting, deselecting,
\* adding and deleting nodes, edges and containers, loadDiagram, clearAll)
\* at most one of selectedNode, selectedEdge and selectedContainer is not
\* null.
C23_OneSelection ==
  Cardinality({k \in {"node", "edge", "container"} :
                 \/ k = "node" /\ app.selectedNode # Null
                 \/ k = "edge" /\ app.selectedEdge # Null
                 \/ k = "container" /\ app.selectedContainer # Null}) <= 1

\* an edge of the diagram is selected, in a diagram that holds nodes and
\* a container and in which a container has been added or loaded
C23_Witness ==
  /\ app.selectedEdge # Null
  /\ app.nodes # {} /\ app.containers # {}
  /\ app.nextContainerId > 1
  /\ app.selectedEdge \in EdgeIdsOf(app)

\* C27: after any sequence of editor operations from the empty diagram
\* (add node, start connect, complete connect, cancel connect, delete
\* node, delete edge) the from and to of every edge are ids of nodes that
\* are in the diagram: no operation creates an edge to a deleted node.
C27_EdgesHaveTheirNodes ==
  \A e \in app.edges : e.from \in NodeIds(app) /\ e.to \in NodeIds(app)

\* ---------------------------------------------------------------------
\* Properties of MermaidPanel
\* ---------------------------------------------------------------------
\* C26: a render superseded by a change of code or showPreview, or by the
\* unmount, never writes its result or error into the preview element;
\* and once no render is in flight the preview shows the output for the
\* latest code (nothing for the empty code), whatever the order in which
\* the renders settled.
C26_PreviewShowsLatestCode ==
  /\ ~panel.wroteCancelled
  /\ (previewRef(panel) /\ panel.renders = {}) =>
       IF panel.code = "" THEN panel.preview = <<>>
       ELSE panel.preview # <<>> /\ panel.preview[1].code = panel.code

====
